---- MODULE Spec2Model ----
(***************************************************************************)
(* A model of the round-generation and distribution core of the            *)
(* "Two Truths & AI" backend (src/src/main.py): the session history store  *)
(* (Redis or the in-memory fallback), the round generator, the background  *)
(* scheduler with its preload threads, and the SSE broadcast hub.          *)
(*                                                                         *)
(* The specifications share the variables.  Among them:                    *)
(*   Spec        the scheduler, the preload threads, the trigger handlers  *)
(*               and the generator, interleaved;                           *)
(*   SpecHub     the scheduler, the preload threads and the stream         *)
(*               connections (subscribers);                                *)
(*   SpecHist    update_session_history / get_session_history called in    *)
(*               sequence past REDIS_MAX_HISTORY rounds;                   *)
(*   SpecSession the POST /api/session actions on short histories;         *)
(*   SpecRace    two threads in the store and the session endpoint at the  *)
(*               same time.                                                *)
(***************************************************************************)
EXTENDS Integers, Sequences, FiniteSets, TLC

VARIABLES
    \* configuration fixed at import time (main.py 44-108)
    redis_client,           \* TRUE: a Redis client is configured
    anthropic_client,       \* TRUE: the Anthropic client is configured
    claude_prompt,          \* TRUE: the prompt template is loaded
    \* history store
    session_history,        \* the in-memory fallback (main.py 127-130)
    redis_sessions,         \* Redis hashes  twotruths:session:<id>
    redis_statements,       \* Redis lists   twotruths:statements:<id>
    current_session_id,     \* 0 is Python's None
    \* scheduler and hub (main.py 112-118)
    new_round_requested,
    preloaded_round,
    is_preloading,
    message_queues,         \* client id -> queue content; DOMAIN is the registry
    sched,                  \* the background_task thread: position and locals
    threads,                \* preload_next_round threads: position and locals
    more_threads,           \* preload threads started beyond these, not yet run
    trig,                   \* trigger_new_round handlers: position
    clients,                \* game_stream handlers: position
    \* bookkeeping of the verification (not program state)
    gen_seq,                \* number of rounds the generator has stored
    gen_budget,             \* rounds the model will still produce in this run
    cycle_events,           \* events published since the flag was last observed
    appends,                \* calls of update_session_history since Init/reset
    got,                    \* the History the last get_session_history returned
    resp,                   \* the outcome of the last call that completed
    \* threads that call the store or serve /api/session (Flask workers)
    handlers                \* thread id -> what it is doing, position, locals

vars == <<redis_client, anthropic_client, claude_prompt, session_history,
          redis_sessions, redis_statements, current_session_id,
          new_round_requested, preloaded_round, is_preloading, message_queues,
          sched, threads, trig, clients, gen_seq, gen_budget, cycle_events, appends,
          got, resp, handlers, more_threads>>

configVars == <<redis_client, anthropic_client, claude_prompt>>
storeVars  == <<session_history, redis_sessions, redis_statements>>
hubVars    == <<new_round_requested, preloaded_round, is_preloading, message_queues>>
procVars   == <<sched, threads, more_threads, trig, clients>>

----------------------------------------------------------------------------
(* Bounds of the model *)

MaxAppends == 102          \* SpecHist: appends per run (past REDIS_MAX_HISTORY)
MaxSessAppends == 3        \* SpecSession: appends per run
MaxSessions == 3           \* session ids uuid4 can hand out in a run
SwitchSessions == 2        \* SpecSwitch: session ids in a run
MaxFirstCallers == 4       \* threads that ask for the session id at once
MaxGen == 2                \* Spec: rounds the generator stores per run
RedisGen == 1              \* Spec: the same, in the runs with Redis
HubGen == 1                \* SpecHub: rounds the generator stores per run
MaxThreads == 2            \* Spec: preload threads followed one by one
MoreThreads == 1           \* further preload threads: this many or more
MaxTriggers == 1           \* Spec: trigger handlers in flight at once
FlagTriggers == 2          \* SpecFlag: trigger handlers in flight at once
HubTriggers == 1           \* SpecSwitch: trigger requests per run
HubThreads == 1            \* SpecHub: preload threads followed one by one
SidThreads == 3            \* SpecSid: threads that call get_session_id
SidCalls == 4              \* SpecSid: calls of get_session_id per run
FailAppends == 3           \* SpecFail: appends per run
GenRounds == 3             \* SpecGen: rounds the generator stores per run
HubClients == 2            \* SpecHub: stream connections per run

(* Program constants *)

REDIS_MAX_HISTORY == 100
HistoryContext == 15       \* history["rounds"][:15]

Min(a, b) == IF a < b THEN a ELSE b
Max(a, b) == IF a > b THEN a ELSE b

----------------------------------------------------------------------------
(* JSON / Python values.  A value is a record of one shape:                *)
(*   type  "null" (None), "dict", "list", "str", "num"                     *)
(*   keys  the keys of a dict                                              *)
(*   n     len() of a list or str, the value of a num                      *)
(*   stmts the value under "statements" (StmtsAbsent when there is none)   *)
(*   err   the value under "error" ("" when there is none)                 *)
(*   id    which model response the value was parsed from (0: none)        *)
(* A statements value (one round in the history) has                       *)
(*   kind  "objects" (a list of dicts), "objects_text_not_str" (a list of  *)
(*         dicts whose "text" is a number or null), "strings" (a list      *)
(*         whose items are not dicts), "scalar" (not iterable), "absent"   *)
(*   lies  the isLie field of each statement                               *)

StmtsAbsent == [kind |-> "absent", lies |-> <<>>, id |-> 0]
EmptyList   == [kind |-> "objects", lies |-> <<>>, id |-> 0]

None == [type |-> "null", keys |-> {}, n |-> 0, stmts |-> StmtsAbsent, err |-> "", id |-> 0]

ErrorResult(msg) ==
    [type |-> "dict", keys |-> {"error"}, n |-> 0, stmts |-> StmtsAbsent, err |-> msg, id |-> 0]

\* bool(v)
Truthy(v) ==
    CASE v.type = "null" -> FALSE
      [] v.type = "dict" -> v.keys # {}
      [] v.type = "list" -> v.n > 0
      [] v.type = "str"  -> v.n > 0
      [] v.type = "num"  -> v.n # 0

\* isinstance(v, dict) and "error" in v
IsErrorResult(v) == v.type = "dict" /\ "error" \in v.keys

\* json.dumps / json.loads of a round stored in a Redis list
Dumps(stmts) == [json |-> stmts]
Loads(s) == s.json

----------------------------------------------------------------------------
(* Granularity.  A step of the model is one access to what the threads     *)
(* share: one Redis command, one critical section of a lock, one read or   *)
(* write of a global.  What a thread computes on its locals between two     *)
(* accesses belongs to the step of the access before it.  The functions    *)
(* that touch the store are written as step functions: given the locals f  *)
(* of the calling thread (a record whose pc names the next access) and the *)
(* store st, they give the set of outcomes [f |-> locals, st |-> store] of  *)
(* the next access.  The threads that run them interleave step by step.    *)

\* the store as one value
Store ==
    [mem |-> session_history, hash |-> redis_sessions,
     list |-> redis_statements, sid |-> current_session_id]

SetStore(st) ==
    /\ session_history' = st.mem
    /\ redis_sessions' = st.hash
    /\ redis_statements' = st.list
    /\ current_session_id' = st.sid

Range(seq) == {seq[i] : i \in 1..Len(seq)}

\* position of an operation in a sequence of operations (0: not in it)
OpIndex(ops, op) ==
    IF \E i \in 1..Len(ops) : ops[i] = op
    THEN CHOOSE i \in 1..Len(ops) : ops[i] = op
    ELSE 0

\* the operation that follows op; "done" after the last one
After(ops, op) ==
    IF OpIndex(ops, op) < Len(ops) THEN ops[OpIndex(ops, op) + 1] ELSE "done"

----------------------------------------------------------------------------
(* Session id (main.py 137-156) *)

\* str(uuid.uuid4()) is an id no session of this run has had.  An id is
\* created in the step that assigns it to the global (lines 153-154, 925),
\* and ids are numbered in the order of their creation, so the global holds
\* the newest, which is the largest.
NewUuid(st) == st.sid + 1

\* get_session_id(): the next access of the caller with locals f.  The
\* function takes no lock: it reads the global (lines 149-150) and, when
\* it found it empty, assigns it a new id (153-154) in a second access,
\* whatever the global holds by then.  wait is the caller's position
\* between the two, next the one after the call.
get_session_id(f, st, wait, next) ==
    IF f.pc = wait
    THEN {[f |-> [f EXCEPT !.sid = NewUuid(st), !.pc = next],        \* 153-156
           st |-> [st EXCEPT !.sid = NewUuid(st)]]}
    ELSE IF st.sid # 0
    THEN {[f |-> [f EXCEPT !.sid = st.sid, !.pc = next], st |-> st]} \* 149-150
    ELSE {[f |-> [f EXCEPT !.pc = wait], st |-> st]}                 \* 149

\* the id get_session_id() returns to a caller that runs it now, with no
\* other thread in between
SessionIdNow == IF current_session_id # 0 THEN current_session_id ELSE NewUuid(Store)

----------------------------------------------------------------------------
(* History store (main.py 158-258) *)

EmptyHistory == [rounds |-> <<>>, round_count |-> 0]

\* a Redis hash that does not exist
NoHash == [exists |-> FALSE, round_count |-> 0]

\* list[-n:]
LastN(list, n) == SubSeq(list, Max(1, Len(list) - n + 1), Len(list))

\* LRANGE key 0 stop  /  LTRIM key 0 stop
LRange0(list, stop) == SubSeq(list, 1, Min(Len(list), stop + 1))

\* LPUSH key value
LPush(list, value) == <<value>> \o list

\* HINCRBY key round_count by (creates the hash at 0 when it is missing)
HIncrBy(hash, by) == [exists |-> TRUE, round_count |-> hash.round_count + by]

\* lines 200-205: the stored strings parsed back
Decode(stored) == [i \in 1..Len(stored) |-> Loads(stored[i])]

\* MemAppend without the truncation to the most recent REDIS_MAX_HISTORY rounds
MemAppend_NoTruncate(h, statements) ==
    [rounds |-> Append(h.rounds, statements), round_count |-> h.round_count + 1]

\* the in-memory branch of update_session_history (main.py 227-232, 254-258)
MemAppend(h, statements) ==
    LET rounds == Append(h.rounds, statements)
    IN  [rounds |-> IF Len(rounds) > REDIS_MAX_HISTORY
                    THEN LastN(rounds, REDIS_MAX_HISTORY) ELSE rounds,
         round_count |-> h.round_count + 1]

\* the Redis commands of update_session_history, in the order of lines
\* 241-250 (the llen is the one inside the log message)
UpdateOps == <<"hincrby", "expire", "lpush", "ltrim", "expire_list", "llen">>

\* the Redis commands of get_session_history, in the order of lines 181-191
GetOps == <<"hgetall", "hset", "expire_hash", "lrange">>

\* of these, the commands that read or write what the model holds (the
\* expiry of a key is not modelled, and llen only feeds a log line)
UpdateCmds == <<"hincrby", "lpush", "ltrim">>
GetCmds == <<"hgetall", "hset", "lrange">>

\* the History a caller holds.  From Redis it is a dict of its own; from
\* the in-memory store it is session_history.copy(), a shallow copy: the
\* count is copied, "rounds" is the very list the store appends to
\* (shared), until line 232 or 258 gives the store a new list.
NoHistory == [round_count |-> 0, rounds |-> <<>>, shared |-> FALSE]

\* lines 175-176 and 211-212
Copy(st) == [round_count |-> st.mem.round_count, rounds |-> <<>>, shared |-> TRUE]

\* the History a get that fails answers with an empty one
Fallback_EmptyOnFailure(st) == NoHistory

\* lines 208-212: what a get that fails returns
Fallback(st) == Copy(st)

\* what the holder of h reads in history["round_count"], history["rounds"]
Seen(h, st) ==
    [rounds |-> IF h.shared THEN st.mem.rounds ELSE h.rounds,
     round_count |-> h.round_count]

\* did the step from st to st2 give the in-memory store a new list
\* (lines 231-232, 257-258)?
Replaced(st, st2) ==
    /\ st2.mem.rounds # st.mem.rounds
    /\ Len(st.mem.rounds) = REDIS_MAX_HISTORY
    /\ st2.mem.round_count = st.mem.round_count + 1

\* the locals of another thread after the step from st to st2: a History
\* that shared the store's list keeps the old list, with the round that
\* was appended to it before the store got its new one
Kept(f, st, st2) ==
    IF f.h.shared /\ Replaced(st, st2)
    THEN [f EXCEPT !.h.shared = FALSE,
                   !.h.rounds = Append(st.mem.rounds,
                                       st2.mem.rounds[Len(st2.mem.rounds)])]
    ELSE f

KeptAll(frames, st, st2) == [x \in DOMAIN frames |-> Kept(frames[x], st, st2)]

\* where get_session_history starts (line 173)
GetEntry(ops) == IF redis_client THEN ops[1] ELSE "copy"

\* get_session_history(f.sid): the next access.  ops are the Redis commands
\* that are steps, failing the ones that can raise
get_session_history(f, st, ops, failing) ==
    LET hash == st.hash[f.sid]
        ran ==
            CASE f.pc = "copy" ->
                   [f |-> [f EXCEPT !.h = Copy(st), !.pc = "done"], st |-> st]
              [] f.pc = "hgetall" ->                                 \* 181-185
                   [f |-> [f EXCEPT !.h = [NoHistory EXCEPT
                                              !.round_count = hash.round_count],
                                    !.pc = IF hash.exists THEN "lrange"
                                           ELSE After(ops, "hgetall")],
                    st |-> st]
              [] f.pc = "hset" ->                                    \* 186
                   [f |-> [f EXCEPT !.pc = After(ops, "hset")],
                    st |-> [st EXCEPT !.hash[f.sid] =
                                         [exists |-> TRUE, round_count |-> 0]]]
              [] f.pc = "lrange" ->                                  \* 191-207
                   [f |-> [f EXCEPT !.h.rounds =
                                       Decode(LRange0(st.list[f.sid],
                                                      REDIS_MAX_HISTORY - 1)),
                                    !.pc = "done"],
                    st |-> st]
              [] OTHER ->                                            \* 187
                   [f |-> [f EXCEPT !.pc = After(ops, f.pc)], st |-> st]
        raised ==
            [f |-> [f EXCEPT !.h = Fallback(st), !.fail = f.pc, !.pc = "done"],
             st |-> st]
    IN  {ran} \cup (IF f.pc \in failing THEN {raised} ELSE {})

\* UpdateAtMem that replays the round only when nothing reached Redis
UpdateAtMem_FirstStepOnly(h, statements, fail) ==
    IF fail = "hincrby" THEN MemAppend(h, statements) ELSE h

\* the in-memory history after update_session_history in which fail raised
\* (lines 251-258)
UpdateAtMem(h, statements, fail) ==
    IF fail = "none" THEN h ELSE MemAppend(h, statements)

\* where update_session_history starts (line 225)
UpdateEntry(ops) == IF redis_client THEN ops[1] ELSE "append"

\* update_session_history(f.sid, f.stmts): the next access
update_session_history(f, st, ops, failing) ==
    LET ran ==
            CASE f.pc = "append" ->                                  \* 227-233
                   [f |-> [f EXCEPT !.pc = "done"],
                    st |-> [st EXCEPT !.mem = MemAppend(@, f.stmts)]]
              [] f.pc = "hincrby" ->                                 \* 241
                   [f |-> [f EXCEPT !.pc = After(ops, "hincrby")],
                    st |-> [st EXCEPT !.hash[f.sid] = HIncrBy(@, 1)]]
              [] f.pc = "lpush" ->                                   \* 245-246
                   [f |-> [f EXCEPT !.pc = After(ops, "lpush")],
                    st |-> [st EXCEPT !.list[f.sid] = LPush(@, Dumps(f.stmts))]]
              [] f.pc = "ltrim" ->                                   \* 247
                   [f |-> [f EXCEPT !.pc = After(ops, "ltrim")],
                    st |-> [st EXCEPT !.list[f.sid] =
                                         LRange0(@, REDIS_MAX_HISTORY - 1)]]
              [] OTHER ->                                            \* 242, 248, 250
                   [f |-> [f EXCEPT !.pc = After(ops, f.pc)], st |-> st]
        raised ==
            [f |-> [f EXCEPT !.fail = f.pc, !.pc = "done"],
             st |-> [st EXCEPT !.mem = UpdateAtMem(@, f.stmts, f.pc)]]
    IN  {ran} \cup (IF f.pc \in failing THEN {raised} ELSE {})

\* the History get_session_history(session_id) returns when it runs from
\* its first line to its last with no other thread in between
GetHistory(session_id) ==
    IF ~redis_client
    THEN session_history
    ELSE [rounds |-> Decode(LRange0(redis_statements[session_id],
                                    REDIS_MAX_HISTORY - 1)),
          round_count |-> redis_sessions[session_id].round_count]

----------------------------------------------------------------------------
(* POST /api/session (main.py 877-942) *)

\* Response that answers 200 whatever the handler decided
Response_Always200(action, status, session_id, keys, message, cleared, new_id) ==
    [action |-> action, status |-> 200, session_id |-> session_id, keys |-> keys,
     message |-> message, cleared |-> cleared, new_id |-> new_id]

\* what the handler answers: the status, the keys of the JSON body and what
\* the body says
Response(action, status, session_id, keys, message, cleared, new_id) ==
    [action |-> action, status |-> status, session_id |-> session_id, keys |-> keys,
     message |-> message, cleared |-> cleared, new_id |-> new_id]

\* the Redis commands of the reset, in the order of lines 892-904
ResetOps == <<"hget", "delete_session", "delete_statements", "delete_prompts",
              "delete_responses", "hset", "expire_session">>

\* of these, the commands that read or write what the model holds
ResetCmds == <<"hget", "delete_session", "delete_statements", "hset">>

\* action "reset" with a Redis client (main.py 885-910): the next command.
\* The except clause only logs: response_data is still {} and status_code
\* still 200.
ResetRedis(f, st, ops, failing) ==
    LET ran ==
            CASE f.pc = "hget" ->                                    \* 892
                   [f |-> [f EXCEPT !.cleared = st.hash[f.sid].round_count,
                                    !.pc = After(ops, "hget")],
                    st |-> st]
              [] f.pc = "delete_session" ->                          \* 895
                   [f |-> [f EXCEPT !.pc = After(ops, "delete_session")],
                    st |-> [st EXCEPT !.hash[f.sid] = NoHash]]
              [] f.pc = "delete_statements" ->                       \* 896
                   [f |-> [f EXCEPT !.pc = After(ops, "delete_statements")],
                    st |-> [st EXCEPT !.list[f.sid] = <<>>]]
              [] f.pc = "hset" ->                                    \* 903
                   [f |-> [f EXCEPT !.pc = After(ops, "hset")],
                    st |-> [st EXCEPT !.hash[f.sid] =
                                         [exists |-> TRUE, round_count |-> 0]]]
              [] OTHER ->                                            \* 899, 900, 904
                   [f |-> [f EXCEPT !.pc = After(ops, f.pc)], st |-> st]
        raised == [f |-> [f EXCEPT !.fail = f.pc, !.pc = "done"], st |-> st]
    IN  {ran} \cup (IF f.pc \in failing THEN {raised} ELSE {})

\* action "reset" without a Redis client (main.py 911-920).  manage_session
\* assigns session_history without declaring it global, so the name is local
\* to the handler and the read on line 914 raises UnboundLocalError before
\* anything is cleared: the request ends in a server error.
ResetMemory(f, st) ==
    {[f |-> [f EXCEPT !.fail = "UnboundLocalError", !.pc = "done"], st |-> st]}

\* action "new" (main.py 922-930): the global is assigned a fresh uuid, and
\* the answer is built from the global
NewSession(f, st) ==
    IF f.pc = "assign"
    THEN {[f |-> [f EXCEPT !.pc = "answer"],                         \* 925
           st |-> [st EXCEPT !.sid = NewUuid(st)]]}
    ELSE {[f |-> [f EXCEPT !.new_id = st.sid, !.pc = "done"],        \* 926-930
           st |-> st]}

\* where the handler goes after line 755
SessionEntry(action, ops) ==
    CASE action = "reset" -> IF redis_client THEN ops[1] ELSE "reset_mem"
      [] action = "new" -> "assign"
      [] OTHER -> "done"                                             \* 932-935

\* what the handler answers when it is done (lines 907, 920, 927-930, 934)
SessionAnswer(f) ==
    CASE f.op = "reset" ->
           IF f.fail = "UnboundLocalError"
           THEN Response("reset", 500, f.sid, {}, "UnboundLocalError", 0, 0)
           ELSE IF f.fail = "none"
           THEN Response("reset", 200, f.sid, {"message"}, "Session reset",
                         f.cleared, 0)
           ELSE Response("reset", 200, f.sid, {}, "", 0, 0)
      [] f.op = "new" ->
           Response("new", 200, f.sid, {"message", "session_id"},
                    "New session created", 0, f.new_id)
      [] OTHER ->
           Response(f.op, 400, f.sid, {"error"}, "Invalid action", 0, 0)

\* manage_session(), method POST with action f.op: the next access
manage_session(f, st, ops, failing) ==
    CASE f.pc \in {"sid", "uuid4"} ->                                \* 755
           get_session_id(f, st, "uuid4", SessionEntry(f.op, ops))
      [] f.op = "reset" /\ f.pc = "reset_mem" -> ResetMemory(f, st)
      [] f.op = "reset" -> ResetRedis(f, st, ops, failing)
      [] OTHER -> NewSession(f, st)

----------------------------------------------------------------------------
(* The threads that call the store and the session endpoint: one frame of  *)
(* locals each.  op is what the thread is doing: "append" (lines 446-447   *)
(* of the generator), "get" (GET /api/session, lines 755-774), or the      *)
(* action of a POST /api/session.                                          *)

\* the ids of a run: those of MaxSessions "new" actions, and one for every
\* thread that can be at its first access when no id exists yet
SessionIds == 1..(MaxSessions + MaxFirstCallers)

\* the statements of the k-th round handed to update_session_history
RoundOf(k) ==
    [kind |-> "objects",
     lies |-> [i \in 1..3 |-> i = (k % 3) + 1],
     id |-> k]

NoBefore == [mem |-> EmptyHistory, hash |-> NoHash, list |-> <<>>]

IdleHandler ==
    [op |-> "", pc |-> "idle", sid |-> 0, h |-> NoHistory, stmts |-> StmtsAbsent,
     fail |-> "none", cleared |-> 0, new_id |-> 0, before |-> NoBefore]

\* the command lists of a specification: which Redis commands are steps,
\* which can raise, how the writes of the prompt and response logs can
\* fail, and (bookkeeping) whether a call records the store as it found it
Cmds ==
    [get |-> GetCmds, update |-> UpdateCmds, reset |-> ResetCmds,
     failing |-> {}, logfails |-> {"none"}, before |-> FALSE]
Ops ==
    [get |-> GetOps, update |-> UpdateOps, reset |-> ResetOps,
     failing |-> {}, logfails |-> {"none"}, before |-> FALSE]

\* bookkeeping: the store of session id as a call finds it
Before(st, id, cfg) ==
    IF cfg.before
    THEN [mem |-> st.mem, hash |-> st.hash[id], list |-> st.list[id]]
    ELSE NoBefore

\* bookkeeping: a call that has its session id records the store as found
Found(o, cfg) ==
    IF o.f.pc = "uuid4" THEN o
    ELSE [o EXCEPT !.f.before = Before(o.st, o.f.sid, cfg)]

\* handlers that are inside update_session_history
Appending == {c \in DOMAIN handlers : handlers[c].op = "append"}

\* GET /api/session: the handler reads the History it was given when it
\* builds its answer (lines 768-774); a History of its own was read already
Answering(o) ==
    IF o.f.pc = "done" /\ o.f.h.shared THEN [o EXCEPT !.f.pc = "answer"] ELSE o

\* the next access of the thread with locals f
HandlerNext(f, st, cfg) ==
    CASE f.op = "append" /\ f.pc \in {"sid", "uuid4"} ->             \* 446
           {Found(o, cfg)
              : o \in get_session_id(f, st, "uuid4", UpdateEntry(cfg.update))}
      [] f.op = "append" ->
           update_session_history(f, st, cfg.update, cfg.failing)
      [] f.op = "get" /\ f.pc \in {"sid", "uuid4"} ->                \* 755
           get_session_id(f, st, "uuid4", GetEntry(cfg.get))
      [] f.op = "get" /\ f.pc = "answer" ->
           {[f |-> [f EXCEPT !.pc = "done"], st |-> st]}
      [] f.op = "get" ->
           {Answering(o) : o \in get_session_history(f, st, cfg.get, cfg.failing)}
      [] OTHER ->
           {IF f.pc \in {"sid", "uuid4"} THEN Found(o, cfg) ELSE o
              : o \in manage_session(f, st, cfg.reset, cfg.failing)}

\* what is recorded of a thread that is done: what it answered and
\* (bookkeeping) the command that raised, the round it appended, the store
\* as it found it and the session id when it answered
Answer(f, st) ==
    (IF f.op \in {"append", "get"}
     THEN Response(f.op, 200, f.sid, {}, "", 0, 0)
     ELSE SessionAnswer(f))
        @@ [fail |-> f.fail, statements |-> f.stmts, before |-> f.before,
            current |-> st.sid]

\* thread c goes on with op (it starts it when it is idle and more says it
\* may), and the globals the session endpoint never touches
HandlerRun(c, op, cfg, more) ==
    /\ IF handlers[c].pc = "idle" THEN more ELSE handlers[c].op = op
    /\ LET f == IF handlers[c].pc = "idle"
                THEN [IdleHandler EXCEPT
                         !.op = op, !.pc = "sid",
                         !.stmts = IF op = "append"
                                   THEN RoundOf(appends + Cardinality(Appending) + 1)
                                   ELSE StmtsAbsent]
                ELSE handlers[c]
       IN  \E o \in HandlerNext(f, Store, cfg) :
              /\ SetStore(o.st)
              /\ IF o.f.pc = "done"
                 THEN /\ handlers' = [KeptAll(handlers, Store, o.st)
                                         EXCEPT ![c] = IdleHandler]
                      /\ resp' = <<Answer(o.f, o.st)>>
                      /\ got' = IF op = "get" THEN <<Seen(o.f.h, o.st)>> ELSE <<>>
                      /\ appends' = IF op = "append" THEN appends + 1 ELSE appends
                 ELSE /\ handlers' = [KeptAll(handlers, Store, o.st)
                                         EXCEPT ![c] = o.f]
                      /\ UNCHANGED <<resp, got, appends>>
    /\ UNCHANGED <<configVars, procVars, gen_seq, gen_budget, cycle_events>>

\* HandlerRun for a session action that also drops the preloaded round
SessionRun_DropsCache(c, op, cfg, more) ==
    /\ HandlerRun(c, op, cfg, more)
    /\ preloaded_round' = None
    /\ UNCHANGED <<new_round_requested, is_preloading, message_queues>>

\* a step of the session endpoint: manage_session names none of the
\* scheduler's globals
SessionRun(c, op, cfg, more) ==
    /\ HandlerRun(c, op, cfg, more)
    /\ UNCHANGED hubVars

----------------------------------------------------------------------------
(* The round generator, generate_new_round (main.py 260-493).              *)
(* A call is a sequence of steps of its caller: line 290, the accesses of   *)
(* get_session_history, the rendering of the history block (a step of its  *)
(* own when the History shares its list with the store), the model call,   *)
(* line 446 with the parsing before it, and the accesses of                *)
(* update_session_history.  Callers interleave between any two of them.    *)

ApiErrors == {"API Connection Error", "API Rate Limit Error",
              "API Authentication Error", "API Status Error",
              "Unexpected API Error"}

\* a value the response text parses to
Value(type, keys, n, stmts, err, id) ==
    [type |-> type, keys |-> keys, n |-> n, stmts |-> stmts, err |-> err, id |-> id]

\* {"statements": [three statement objects, one of them the lie]}
GoodRound(id) ==
    Value("dict", {"statements"}, 0,
          [kind |-> "objects", lies |-> <<FALSE, FALSE, TRUE>>, id |-> id], "", id)

\* {"statements": ["a", "b", "c"]}: statements that are not objects
BadStatements(id) ==
    Value("dict", {"statements"}, 0,
          [kind |-> "strings", lies |-> <<>>, id |-> id], "", id)

\* {"statements": [{"text": 5, "isLie": false}, ...]}: three statement
\* objects whose "text" is not a string
NoTextRound(id) ==
    Value("dict", {"statements"}, 0,
          [kind |-> "objects_text_not_str", lies |-> <<FALSE, FALSE, TRUE>>,
           id |-> id], "", id)

\* {"statements": [three statement objects, two of them lies]}
TwoLies(id) ==
    Value("dict", {"statements"}, 0,
          [kind |-> "objects", lies |-> <<TRUE, TRUE, FALSE>>, id |-> id], "", id)

\* {"statements": [two statement objects]}
ShortRound(id) ==
    Value("dict", {"statements"}, 0,
          [kind |-> "objects", lies |-> <<FALSE, TRUE>>, id |-> id], "", id)

\* the values a parseable response stands for
ParsedValues(id) ==
    { GoodRound(id),
      BadStatements(id),
      NoTextRound(id),
      TwoLies(id),
      ShortRound(id),
      Value("dict", {}, 0, StmtsAbsent, "", 0),                    \* {}
      Value("dict", {"other"}, 0, StmtsAbsent, "", id),            \* {"note": ...}
      Value("dict", {"error"}, 0, StmtsAbsent, "model text", 0),   \* {"error": ...}
      Value("list", {}, 0, StmtsAbsent, "", 0),                    \* []
      Value("list", {}, 1, StmtsAbsent, "", id),                   \* [1]
      Value("num", {}, 5, StmtsAbsent, "", 0) }                    \* 5

\* what anthropic_client.messages.create and the extraction yield:
\* an exception of the client, a text that does not parse, or a value
ModelResponses(id) ==
    [outcome : ApiErrors, value : {None}]
        \cup {[outcome |-> "unparseable", value |-> None]}
        \cup [outcome : {"parsed"}, value : ParsedValues(id)]

\* the responses that store nothing (used once MaxGen rounds are stored)
FailingResponses ==
    [outcome : ApiErrors, value : {None}]
        \cup {[outcome |-> "unparseable", value |-> None]}

\* lines 296-305: rendering a stored round iterates it and calls .get on
\* every item, outside any try block
RenderRaises(round) == round.kind \in {"strings", "scalar"}

\* lines 451-455: the topics loop iterates the statements, calls .get on
\* every item and .split on its "text", inside the try block
TopicsRaise(statements) ==
    statements.kind \in {"strings", "scalar", "objects_text_not_str"}

HistoryTextRaises(history) ==
    \E i \in 1..Min(Len(history.rounds), HistoryContext) :
        RenderRaises(history.rounds[i])

\* line 299: history["rounds"][:15], the rounds rendered into the prompt
recent_rounds(history) ==
    SubSeq(history.rounds, 1, Min(Len(history.rounds), HistoryContext))

\* EasterEggSet with the number of stored rounds in place of the round number
EasterEggSet_RoundCount(round_number) == (round_number - 1) % 3 = 0

\* line 310
EasterEggSet(round_number) == round_number % 3 = 0

\* lines 292-320: what the prompt sent to the model is made of
PromptToSend(history) ==
    [round_number |-> history.round_count + 1,
     history_block |-> Len(history.rounds) > 0,
     rounds_shown |-> Min(Len(history.rounds), HistoryContext),
     easter_egg |-> EasterEggSet(history.round_count + 1)]

\* GenStartError with the prompt looked at before the client
GenStartError_PromptFirst ==
    IF ~claude_prompt THEN ErrorResult("Claude prompt not loaded")
    ELSE ErrorResult("Anthropic client not initialized")

\* lines 282-287
GenStartError ==
    IF ~anthropic_client THEN ErrorResult("Anthropic client not initialized")
    ELSE ErrorResult("Claude prompt not loaded")

\* "statements" in round_data raises TypeError for a number or None;
\* round_data["statements"] raises for a list or str that contains it
StatementsLookupRaises(v) ==
    \/ v.type \in {"num", "null"}
    \/ v.type # "dict" /\ "statements" \in v.keys

\* lines 441-443
StatementsOf(v) == IF "statements" \in v.keys THEN v.stmts ELSE EmptyList

\* does the call store a round (lines 445-447)?
GenStores(r) == r.outcome = "parsed" /\ ~StatementsLookupRaises(r.value)

\* GenReturn with one error for every exception of the client
GenReturn_OneKind(r) ==
    CASE r.outcome \in ApiErrors -> ErrorResult("Unexpected API Error")
      [] r.outcome = "unparseable" -> ErrorResult("Failed to parse response from LLM")
      [] OTHER ->
           IF StatementsLookupRaises(r.value) \/ TopicsRaise(StatementsOf(r.value))
              THEN ErrorResult("Unexpected API Error")
           ELSE r.value

\* what generate_new_round returns for response r
GenReturn(r) ==
    CASE r.outcome \in ApiErrors -> ErrorResult(r.outcome)
      [] r.outcome = "unparseable" -> ErrorResult("Failed to parse response from LLM")
      [] OTHER ->
           IF StatementsLookupRaises(r.value)
              THEN ErrorResult("Unexpected API Error")
           ELSE IF TopicsRaise(StatementsOf(r.value))       \* 451-455, 487-489
              THEN ErrorResult("Unexpected API Error")
           ELSE r.value

NoResponse == [outcome |-> "", value |-> None]

\* the writes of the prompt log (lines 335-347) and of the response log
\* (376-388): each is lpush, ltrim, expire, and a failing command raises
LogOps == <<"lpush", "ltrim", "expire">>
LogFailures == {"none"} \cup {LogOps[i] : i \in 1..Len(LogOps)}

\* StoreLog without the except clause: the exception leaves the block
StoreLog_Uncaught(fail) ==
    IF ~redis_client THEN [status |-> "skipped", written |-> FALSE]
    ELSE IF fail = "none" THEN [status |-> "stored", written |-> TRUE]
    ELSE [status |-> "raised", written |-> fail # "lpush"]

\* lines 336-347 and 377-388: the log write; `written` says whether the
\* entry reached the list
StoreLog(fail) ==
    IF ~redis_client THEN [status |-> "skipped", written |-> FALSE]
    ELSE IF fail = "none" THEN [status |-> "stored", written |-> TRUE]
    ELSE [status |-> "caught", written |-> fail # "lpush"]

NoLog == [status |-> "", written |-> FALSE]

\* the locals of a call of generate_new_round: session_id (sid; g_session
\* keeps the value line 290 gave it), history (h), what the prompt is made
\* of, the outcome of the two log writes, the response, statements (stmts),
\* the Redis command of update_session_history that raised (fail) and the
\* value returned
GenLocals ==
    [sid |-> 0, g_session |-> 0, h |-> NoHistory,
     prompt |-> PromptToSend(EmptyHistory), prompt_log |-> NoLog,
     response |-> NoResponse, response_log |-> NoLog,
     stmts |-> StmtsAbsent, fail |-> "none", result |-> None]

\* the positions inside get_session_history, inside update_session_history
\* and inside generate_new_round
GetPcs == {"copy"} \cup Range(GetOps)
UpdatePcs == {"append"} \cup Range(UpdateOps)
GenStartPcs == {"gen_start", "uuid4", "render"} \cup GetPcs
GenStorePcs == {"uuid4_store"} \cup UpdatePcs
GenPcs == GenStartPcs \cup {"gen_call"} \cup GenStorePcs

\* return v
Return(f, v) == [f EXCEPT !.pc = "done", !.result = v, !.h = NoHistory]

\* lines 292-349: the round number, the history block (rendering a stored
\* round that is not a list of objects raises, outside any try block) and
\* the prompt log
Rendered(f, st, logfails) ==
    LET history == Seen(f.h, st)
    IN  IF HistoryTextRaises(history)
        THEN {[f EXCEPT !.pc = "raised", !.h = NoHistory]}
        ELSE {LET g == [f EXCEPT !.prompt = PromptToSend(history),
                                 !.prompt_log = StoreLog(fail),
                                 !.h = NoHistory]
              IN  IF g.prompt_log.status = "raised"                  \* line 487
                  THEN Return(g, ErrorResult("Unexpected API Error"))
                  ELSE [g EXCEPT !.pc = "gen_call"]
                : fail \in logfails}

\* lines 351-446: the model call returns r; the response log, the
\* extraction, and for a round that is stored the session id
Received(f, st, r, ops, logfails) ==
    UNION
    {LET log == IF r.outcome \in ApiErrors THEN NoLog ELSE StoreLog(fail)
         g == [f EXCEPT !.response = r, !.response_log = log]
     IN  IF log.status = "raised"                                    \* line 487
         THEN {[f |-> Return(g, ErrorResult("Unexpected API Error")), st |-> st]}
         ELSE IF GenStores(r)
         THEN get_session_id([g EXCEPT !.stmts = StatementsOf(r.value)], st,
                             "uuid4_store", UpdateEntry(ops))        \* 446
         ELSE {[f |-> Return(g, GenReturn(r)), st |-> st]}
       : fail \in logfails}

\* line 290: g_session keeps the id the call read its history for
GotSession(f, st, cfg) ==
    {[o EXCEPT !.f.g_session = o.f.sid]
       : o \in get_session_id(f, st, "uuid4", GetEntry(cfg.get))}

\* generate_new_round(): the next access of the caller with locals f, when
\* the model can answer with any of responses
generate_new_round(f, st, responses, cfg) ==
    CASE f.pc = "gen_start" ->                                       \* 278-290
           IF ~anthropic_client \/ ~claude_prompt
           THEN {[f |-> Return(f, GenStartError), st |-> st]}
           ELSE GotSession(f, st, cfg)
      [] f.pc = "uuid4" -> GotSession(f, st, cfg)                    \* 290
      [] f.pc = "uuid4_store" ->                                     \* 446
           get_session_id(f, st, "uuid4_store", UpdateEntry(cfg.update))
      [] f.pc \in GetPcs ->                                          \* 291
           UNION {IF o.f.pc # "done" THEN {o}
                  ELSE IF o.f.h.shared THEN {[o EXCEPT !.f.pc = "render"]}
                  ELSE {[f |-> g, st |-> o.st] : g \in Rendered(o.f, o.st, cfg.logfails)}
                    : o \in get_session_history(f, st, cfg.get, cfg.failing)}
      [] f.pc = "render" ->
           {[f |-> g, st |-> st] : g \in Rendered(f, st, cfg.logfails)}
      [] f.pc = "gen_call" ->
           UNION {Received(f, st, r, cfg.update, cfg.logfails) : r \in responses}
      [] OTHER ->                                                    \* 447-468
           {IF o.f.pc = "done"
            THEN [o EXCEPT !.f = Return(@, GenReturn(@.response))]
            ELSE o
              : o \in update_session_history(f, st, cfg.update, cfg.failing)}

\* bookkeeping: the responses the generator went on to store
GenCount(f, g) ==
    IF f.pc = "gen_call" /\ g.pc \in GenStorePcs
    THEN /\ gen_seq' = gen_seq + 1
         /\ gen_budget' = gen_budget - 1
    ELSE UNCHANGED <<gen_seq, gen_budget>>

\* the locals of a caller after generate_new_round has left it
Left(f, pc) ==
    [x \in DOMAIN f |-> IF x = "pc" THEN pc
                        ELSE IF x \in DOMAIN GenLocals THEN GenLocals[x]
                        ELSE f[x]]

\* the responses the interleaved specifications draw from: one exception of
\* the client, a text that does not parse, a well-formed round, statements
\* that are not objects, statements whose text is not a string, and the
\* empty object
SchedulerResponses(id) ==
    {r \in ModelResponses(id) :
        \/ r.outcome = "API Authentication Error"
        \/ r.outcome = "unparseable"
        \/ r.outcome = "parsed"
              /\ r.value \in {GoodRound(id), BadStatements(id), NoTextRound(id)}
        \/ r.outcome = "parsed" /\ r.value.type = "dict" /\ r.value.keys = {}}

ResponsesNow ==
    IF gen_budget > 0 THEN SchedulerResponses(gen_seq + 1)
    ELSE SchedulerResponses(gen_seq + 1) \cap FailingResponses

----------------------------------------------------------------------------
(* broadcast_message (main.py 495-535) *)

MessageData(event_type, payload) ==
    IF event_type = "error"
    THEN [type |-> "error",
          message |-> IF "message" \in payload.keys THEN payload.err
                      ELSE "Unknown error",
          payload |-> None]
    ELSE [type |-> event_type, message |-> "", payload |-> payload]

\* "data: " + json.dumps(message_data) + "\n\n"
SseFrame(message_data) == [data |-> message_data]

\* Broadcast that stops after the first registered queue
Broadcast_FirstOnly(queues, event_type, payload) ==
    [c \in DOMAIN queues |->
        IF \A k \in DOMAIN queues : c <= k
        THEN Append(queues[c], SseFrame(MessageData(event_type, payload)))
        ELSE queues[c]]

\* the registry after the event was put on every registered queue
Broadcast(queues, event_type, payload) ==
    [c \in DOMAIN queues |-> Append(queues[c], SseFrame(MessageData(event_type, payload)))]

\* the payload of an error event: {"message": text}
ErrorPayload(text) == Value("dict", {"message"}, 0, StmtsAbsent, text, 0)

EmptyResultMessage == "Failed to generate new round (empty result)."

----------------------------------------------------------------------------
(* background_task (main.py 537-639) *)

ThreadIds == DOMAIN threads
ClientIds == DOMAIN clients
TriggerIds == DOMAIN trig

\* the locals of background_task, those of the generate_new_round it calls
\* among them
SchedLocals(pc) ==
    [pc |-> pc, local_preloaded_round |-> None, round_data |-> None,
     retry |-> FALSE] @@ GenLocals

\* the locals of preload_next_round
ThreadLocals(pc) == [pc |-> pc, next_round |-> None] @@ GenLocals

IdleThreads == {t \in ThreadIds : threads[t].pc = "idle"}

\* the slot the next preload thread is followed in
FreeSlot == CHOOSE x \in IdleThreads : \A y \in IdleThreads : x <= y

\* Thread(target=preload_next_round, daemon=True).start(): the code starts
\* a thread however many are alive.  The model follows those in the slots
\* of `threads` one by one; of the threads started while no slot is free
\* it keeps the number, up to MoreThreads, which stands for "MoreThreads or
\* more".  Such a thread has not run its first line.
SpawnPreload ==
    IF IdleThreads # {}
    THEN /\ threads' = [threads EXCEPT ![FreeSlot] = ThreadLocals("start")]
         /\ UNCHANGED more_threads
    ELSE /\ more_threads' = Min(more_threads + 1, MoreThreads)
         /\ UNCHANGED threads

\* lines 554-564: a new iteration reads the flag under the lock
SchedPoll ==
    /\ sched.pc = "poll"
    /\ sched' = SchedLocals(IF new_round_requested THEN "take" ELSE "idle")
    /\ cycle_events' = 0
    /\ UNCHANGED <<configVars, storeVars, current_session_id, hubVars,
                   threads, trig, clients, gen_seq, gen_budget, appends, got, resp, handlers, more_threads>>

\* SchedTake that leaves the round it took in the cache
SchedTake_KeepCache ==
    /\ sched.pc = "take"
    /\ IF Truthy(preloaded_round)
       THEN sched' = [sched EXCEPT !.local_preloaded_round = preloaded_round,
                                   !.round_data = preloaded_round,
                                   !.pc = "dispatch"]
       ELSE sched' = [sched EXCEPT !.pc = "gen_start"]
    /\ UNCHANGED <<configVars, storeVars, current_session_id, new_round_requested,
                   preloaded_round, is_preloading, message_queues, threads, trig,
                   clients, gen_seq, gen_budget, cycle_events, appends, got, resp, handlers, more_threads>>

\* lines 567-579: take the preloaded round, or go and generate one
SchedTake ==
    /\ sched.pc = "take"
    /\ IF Truthy(preloaded_round)
       THEN /\ sched' = [sched EXCEPT !.local_preloaded_round = preloaded_round,
                                      !.round_data = preloaded_round,
                                      !.pc = "dispatch"]
            /\ preloaded_round' = None
       ELSE /\ sched' = [sched EXCEPT !.pc = "gen_start"]
            /\ UNCHANGED preloaded_round
    /\ UNCHANGED <<configVars, storeVars, current_session_id, new_round_requested,
                   is_preloading, message_queues, threads, trig, clients,
                   gen_seq, gen_budget, cycle_events, appends, got, resp, handlers, more_threads>>

\* generate_new_round() called by the scheduler (lines 573, 588): its next
\* access.  An exception that leaves generate_new_round leaves
\* background_task too: nothing in the loop catches it, and the thread ends.
SchedGenerate(responses) ==
    \E o \in generate_new_round(sched, Store, responses, Cmds) :
        /\ SetStore(o.st)
        /\ GenCount(sched, o.f)
        /\ sched' = CASE o.f.pc = "done" ->
                           [Left(o.f, "dispatch") EXCEPT !.round_data = o.f.result]
                      [] o.f.pc = "raised" -> Left(o.f, "dead")
                      [] OTHER -> o.f
        /\ threads' = KeptAll(threads, Store, o.st)
        /\ UNCHANGED <<configVars, hubVars, trig, clients,
                       cycle_events, appends, got, resp, handlers, more_threads>>

\* up to the model call
SchedGenStart ==
    /\ sched.pc \in GenStartPcs
    /\ SchedGenerate(ResponsesNow)

\* from the model's answer on
SchedGenFinish ==
    /\ sched.pc \in {"gen_call"} \cup GenStorePcs
    /\ SchedGenerate(ResponsesNow)

\* DispatchEvent with the empty result logged but not published
DispatchEvent_SilentEmpty(round_data, from_preload, retry) ==
    IF IsErrorResult(round_data)
    THEN IF from_preload /\ ~retry
         THEN [type |-> "", payload |-> None, next |-> "gen_start"]
         ELSE [type |-> "error", payload |-> ErrorPayload(round_data.err),
               next |-> "clear"]
    ELSE IF Truthy(round_data)
         THEN [type |-> "new_round", payload |-> round_data,
               next |-> IF retry THEN "clear" ELSE "post_check"]
         ELSE [type |-> "", payload |-> None, next |-> "clear"]

\* lines 582-621: where the scheduler goes next and what it publishes for a
\* result ("" when it publishes nothing yet and generates again)
DispatchEvent(round_data, from_preload, retry) ==
    IF IsErrorResult(round_data)
    THEN IF from_preload /\ ~retry
         THEN [type |-> "", payload |-> None, next |-> "gen_start"]          \* 586-589
         ELSE [type |-> "error", payload |-> ErrorPayload(round_data.err),   \* 595, 605
               next |-> "clear"]
    ELSE IF Truthy(round_data)
         THEN [type |-> "new_round", payload |-> round_data,                 \* 599, 609
               next |-> IF retry THEN "clear" ELSE "post_check"]
         ELSE [type |-> "error", payload |-> ErrorPayload(EmptyResultMessage), \* 602, 621
               next |-> "clear"]

SchedEvent ==
    DispatchEvent(sched.round_data, Truthy(sched.local_preloaded_round), sched.retry)

SchedDispatch ==
    /\ sched.pc = "dispatch"
    /\ LET e == SchedEvent
       IN  /\ sched' = [sched EXCEPT !.pc = e.next,
                                     !.retry = (e.next = "gen_start")]
           /\ IF e.type = ""
              THEN UNCHANGED <<message_queues, cycle_events>>
              ELSE /\ message_queues' = Broadcast(message_queues, e.type, e.payload)
                   /\ cycle_events' = cycle_events + 1
    /\ UNCHANGED <<configVars, storeVars, current_session_id, new_round_requested,
                   preloaded_round, is_preloading, threads, trig, clients,
                   gen_seq, gen_budget, appends, got, resp, handlers, more_threads>>

\* ShouldPreload that does not look at is_preloading
ShouldPreload_IgnoreInFlight == preloaded_round = None

\* should a preload be started, by what the scheduler reads under
\* preload_lock (lines 612-616 and 631-635)?
ShouldPreload == ~is_preloading /\ preloaded_round = None

\* lines 611-616: after a successful round the scheduler reads
\* is_preloading and preloaded_round under preload_lock and decides on
\* what it read
SchedPostCheck ==
    /\ sched.pc = "post_check"
    /\ sched' = [sched EXCEPT !.pc = IF ShouldPreload THEN "post_start" ELSE "clear"]
    /\ UNCHANGED <<configVars, storeVars, current_session_id, hubVars, threads,
                   more_threads, trig, clients, gen_seq, gen_budget, cycle_events,
                   appends, got, resp, handlers>>

\* lines 617-618: the lock released, the thread is started, whatever the
\* preload threads have done since the read
SchedPostStart ==
    /\ sched.pc = "post_start"
    /\ SpawnPreload
    /\ sched' = [sched EXCEPT !.pc = "clear"]
    /\ UNCHANGED <<configVars, storeVars, current_session_id, hubVars, trig, clients,
                   gen_seq, gen_budget, cycle_events, appends, got, resp, handlers>>

\* SchedClear that resets the flag as soon as the request was observed
SchedClear_Early ==
    /\ sched.pc \in {"take", "clear"}
    /\ new_round_requested' = FALSE
    /\ sched' = [sched EXCEPT !.pc = IF sched.pc = "clear" THEN "poll" ELSE "take"]
    /\ UNCHANGED <<configVars, storeVars, current_session_id, preloaded_round,
                   is_preloading, message_queues, threads, trig, clients,
                   gen_seq, gen_budget, cycle_events, appends, got, resp, handlers, more_threads>>

\* lines 623-626: the flag is reset after processing
SchedClear ==
    /\ sched.pc = "clear"
    /\ new_round_requested' = FALSE
    /\ sched' = [sched EXCEPT !.pc = "poll"]
    /\ UNCHANGED <<configVars, storeVars, current_session_id, preloaded_round,
                   is_preloading, message_queues, threads, trig, clients,
                   gen_seq, gen_budget, cycle_events, appends, got, resp, handlers, more_threads>>

\* lines 628-635: idle, the scheduler reads preloaded_round and
\* is_preloading under preload_lock and decides on what it read
SchedIdle ==
    /\ sched.pc = "idle"
    /\ sched' = [sched EXCEPT !.pc = IF ShouldPreload THEN "idle_start" ELSE "poll"]
    /\ UNCHANGED <<configVars, storeVars, current_session_id, hubVars, threads,
                   more_threads, trig, clients, gen_seq, gen_budget, cycle_events,
                   appends, got, resp, handlers>>

\* lines 636-637: the lock released, the thread is started
SchedIdleStart ==
    /\ sched.pc = "idle_start"
    /\ SpawnPreload
    /\ sched' = [sched EXCEPT !.pc = "poll"]
    /\ UNCHANGED <<configVars, storeVars, current_session_id, hubVars, trig, clients,
                   gen_seq, gen_budget, cycle_events, appends, got, resp, handlers>>

----------------------------------------------------------------------------
(* SpecHist: one caller appends rounds and reads the history back *)

InitStore ==
    /\ session_history = EmptyHistory
    /\ redis_sessions = [s \in SessionIds |-> NoHash]
    /\ redis_statements = [s \in SessionIds |-> <<>>]
    /\ current_session_id = 0

InitHub ==
    /\ new_round_requested = FALSE
    /\ preloaded_round = None
    /\ is_preloading = FALSE
    /\ message_queues = [c \in {} |-> <<>>]

InitBook(budget) ==
    /\ gen_seq = 0
    /\ gen_budget = budget
    /\ cycle_events = 0
    /\ appends = 0
    /\ got = <<>>
    /\ resp = <<>>

\* may one more append start, of max in a run?
MoreAppends(max) == appends + Cardinality(Appending) < max

HistAppend ==
    \E c \in DOMAIN handlers :
        SessionRun(c, "append", Ops, MoreAppends(MaxAppends))

HistGet ==
    \E c \in DOMAIN handlers : SessionRun(c, "get", Ops, TRUE)

\* the scheduler thread is started at import (main.py 680-682); nThreads is
\* how many preload threads are followed one by one, nTriggers and nClients
\* how many trigger handlers and stream connections there are
InitProcs(nThreads, nTriggers, nClients) ==
    /\ sched = SchedLocals("poll")
    /\ threads = [t \in 1..nThreads |-> ThreadLocals("idle")]
    /\ more_threads = 0
    /\ trig = [h \in 1..nTriggers |-> "idle"]
    /\ clients = [c \in 1..nClients |-> "off"]
    /\ handlers = [c \in 1..1 |-> IdleHandler]

InitHist ==
    /\ redis_client \in BOOLEAN
    /\ anthropic_client = TRUE
    /\ claude_prompt = TRUE
    /\ InitStore /\ InitHub /\ InitProcs(0, 0, 0) /\ InitBook(0)

NextHist == HistAppend \/ HistGet

SpecHist == InitHist /\ [][NextHist]_vars

----------------------------------------------------------------------------
(* SpecFail: the history store with a Redis client whose commands can fail. *)
(* A failing command raises and has no effect; the commands before it in   *)
(* the function have had theirs.                                           *)

OpsFailing ==
    [Ops EXCEPT !.failing = Range(UpdateOps) \cup Range(GetOps), !.before = TRUE]

FailAppend ==
    \E c \in DOMAIN handlers :
        SessionRun(c, "append", OpsFailing, MoreAppends(FailAppends))

FailGet ==
    \E c \in DOMAIN handlers : SessionRun(c, "get", OpsFailing, TRUE)

InitFail ==
    /\ redis_client = TRUE
    /\ anthropic_client = TRUE
    /\ claude_prompt = TRUE
    /\ InitStore /\ InitHub /\ InitProcs(0, 0, 0) /\ InitBook(0)

NextFail == FailAppend \/ FailGet

SpecFail == InitFail /\ [][NextFail]_vars

----------------------------------------------------------------------------
(* SpecSession: session actions between appends and gets *)

\* may one more "new" start?  At most max - 1 are started after the first
\* id of the run; every "new" that has not assigned yet will take an id
MoreSessions(max) ==
    current_session_id
        + Cardinality({c \in DOMAIN handlers :
                          handlers[c].op = "new"
                              /\ handlers[c].pc \in {"sid", "uuid4", "assign"}})
        < max

SessAppend ==
    \E c \in DOMAIN handlers :
        SessionRun(c, "append", Ops, MoreAppends(MaxSessAppends))

SessGet == HistGet

SessReset == \E c \in DOMAIN handlers : SessionRun(c, "reset", Ops, TRUE)

SessNew ==
    \E c \in DOMAIN handlers : SessionRun(c, "new", Ops, MoreSessions(MaxSessions))

SessInvalid == \E c \in DOMAIN handlers : SessionRun(c, "bogus", Ops, TRUE)

InitSession == InitHist

NextSession == SessAppend \/ SessGet \/ SessReset \/ SessNew \/ SessInvalid

SpecSession == InitSession /\ [][NextSession]_vars

----------------------------------------------------------------------------
(* SpecReset: action "reset" with a Redis client whose commands can fail   *)
(* (main.py 885-910), between appends that can fail as well                *)

ResetFailing ==
    [Ops EXCEPT !.failing = Range(UpdateOps) \cup Range(ResetOps), !.before = TRUE]

ResetAppend ==
    \E c \in DOMAIN handlers :
        SessionRun(c, "append", ResetFailing, MoreAppends(FailAppends))

FailReset ==
    \E c \in DOMAIN handlers : SessionRun(c, "reset", ResetFailing, TRUE)

InitReset == InitFail

NextReset == ResetAppend \/ FailReset

SpecReset == InitReset /\ [][NextReset]_vars


----------------------------------------------------------------------------
(* SpecGen: one caller calls generate_new_round again and again, and the   *)
(* result of each call is handed to the scheduler's dispatch (582-621).    *)

NoFrame == SseFrame(MessageData("", None))

\* where the call in resp is; no call is in flight at the first three
CallPc == IF resp = <<>> THEN "none" ELSE resp[1].pc
NotCalling == {"none", "done", "raised"}

\* the outcome of a call so far: its locals, how far it got, the model
\* invocations it made and the event background_task publishes for the
\* result
GenOutcome(f) ==
    [phase |-> CASE f.pc = "done" -> "returned"
                 [] f.pc = "raised" -> "raised"
                 [] f.pc = "gen_call" -> "call"
                 [] f.pc \in GenStorePcs -> "store"
                 [] OTHER -> "start",
     calls |-> IF f.pc = "gen_call" \/ f.response # NoResponse THEN 1 ELSE 0,
     event |-> IF f.pc = "done"
               THEN LET e == DispatchEvent(f.result, FALSE, FALSE)
                    IN  [frame |-> SseFrame(MessageData(e.type, e.payload)),
                         next |-> e.next]
               ELSE [frame |-> NoFrame, next |-> ""]] @@ f

\* the call in flight goes on, or a call starts at entry; resp holds its
\* outcome so far, and `before` the History when it started
CallerRun(action, entry, responses, cfg) ==
    LET f == IF CallPc \in NotCalling
             THEN [action |-> action, pc |-> entry,
                   before |-> GetHistory(SessionIdNow)] @@ GenLocals
             ELSE resp[1]
    IN  \E o \in generate_new_round(f, Store, responses, cfg) :
           /\ SetStore(o.st)
           /\ GenCount(f, o.f)
           /\ resp' = <<GenOutcome(o.f)>>
           /\ UNCHANGED <<configVars, hubVars, procVars, handlers,
                          cycle_events, appends, got>>

GenCalling == resp # <<>> /\ resp[1].action = "generate" /\ resp[1].phase = "call"

GenResponsesNow ==
    IF gen_budget > 0 THEN ModelResponses(gen_seq + 1) ELSE FailingResponses

\* lines 278-349: up to the model call
GenCallStart ==
    /\ CallPc \in NotCalling \cup GenStartPcs
    /\ CallerRun("generate", "gen_start", GenResponsesNow, Cmds)

\* lines 351-489: from the model's answer on
GenCallFinish ==
    /\ CallPc \in {"gen_call"} \cup GenStorePcs
    /\ CallerRun("generate", "gen_start", GenResponsesNow, Cmds)

InitGen ==
    /\ redis_client \in BOOLEAN
    /\ anthropic_client \in BOOLEAN
    /\ claude_prompt \in BOOLEAN
    /\ InitStore /\ InitHub /\ InitProcs(0, 0, 0) /\ InitBook(GenRounds)

NextGen == GenCallStart \/ GenCallFinish

SpecGen == InitGen /\ [][NextGen]_vars

----------------------------------------------------------------------------
(* preload_next_round (main.py 641-678), one thread per call *)

\* PreloadCheck without the test of is_preloading and of the cache
PreloadCheck_NoTest(t) ==
    /\ threads[t].pc = "start"
    /\ threads' = [threads EXCEPT ![t].pc = "gen_start"]
    /\ is_preloading' = TRUE
    /\ UNCHANGED <<configVars, storeVars, current_session_id, new_round_requested,
                   preloaded_round, message_queues, sched, trig, clients,
                   gen_seq, gen_budget, cycle_events, appends, got, resp, handlers, more_threads>>

\* PreloadCheck that does not look at the cache
PreloadCheck_IgnoreCache(t) ==
    /\ threads[t].pc = "start"
    /\ IF is_preloading
       THEN /\ threads' = [threads EXCEPT ![t] = ThreadLocals("idle")]
            /\ UNCHANGED is_preloading
       ELSE /\ threads' = [threads EXCEPT ![t].pc = "gen_start"]
            /\ is_preloading' = TRUE
    /\ UNCHANGED <<configVars, storeVars, current_session_id, new_round_requested,
                   preloaded_round, message_queues, sched, trig, clients,
                   gen_seq, gen_budget, cycle_events, appends, got, resp, handlers, more_threads>>

\* lines 654-659: the check-and-set under preload_lock
PreloadCheck(t) ==
    /\ threads[t].pc = "start"
    /\ IF is_preloading \/ preloaded_round # None
       THEN /\ threads' = [threads EXCEPT ![t] = ThreadLocals("idle")]
            /\ UNCHANGED is_preloading
       ELSE /\ threads' = [threads EXCEPT ![t].pc = "gen_start"]
            /\ is_preloading' = TRUE
    /\ UNCHANGED <<configVars, storeVars, current_session_id, new_round_requested,
                   preloaded_round, message_queues, sched, trig, clients,
                   gen_seq, gen_budget, cycle_events, appends, got, resp, handlers, more_threads>>

\* the threads beyond the slots that are left when one of them has run:
\* when more_threads stands for "MoreThreads or more", as many or one less
OneLess ==
    {more_threads - 1} \cup (IF more_threads = MoreThreads THEN {more_threads} ELSE {})

\* lines 654-659 run by a thread that is not in a slot: it ends at once, or
\* it goes on, in a free slot or, when every slot holds a thread that has
\* not run, in the place of one of these
PreloadCheckMore ==
    /\ more_threads > 0
    /\ IF is_preloading \/ preloaded_round # None
       THEN /\ more_threads' \in OneLess
            /\ UNCHANGED <<threads, is_preloading>>
       ELSE /\ is_preloading' = TRUE
            /\ IF IdleThreads # {}
               THEN /\ threads' = [threads EXCEPT ![FreeSlot] = ThreadLocals("gen_start")]
                    /\ more_threads' \in OneLess
               ELSE /\ \E t \in ThreadIds :
                          /\ threads[t].pc = "start"
                          /\ threads' = [threads EXCEPT ![t].pc = "gen_start"]
                    /\ UNCHANGED more_threads
    /\ UNCHANGED <<configVars, storeVars, current_session_id, new_round_requested,
                   preloaded_round, message_queues, sched, trig, clients,
                   gen_seq, gen_budget, cycle_events, appends, got, resp, handlers>>

\* generate_new_round() called by a preload thread (line 663): its next
\* access.  An exception skips lines 665-674 and runs the finally block.
PreloadGenerate(t, responses) ==
    \E o \in generate_new_round(threads[t], Store, responses, Cmds) :
        /\ SetStore(o.st)
        /\ GenCount(threads[t], o.f)
        /\ threads' = [KeptAll(threads, Store, o.st) EXCEPT
                          ![t] = CASE o.f.pc = "done" ->
                                        [Left(o.f, "store") EXCEPT
                                            !.next_round = o.f.result]
                                   [] o.f.pc = "raised" -> Left(o.f, "finally")
                                   [] OTHER -> o.f]
        /\ sched' = Kept(sched, Store, o.st)
        /\ UNCHANGED <<configVars, hubVars, trig, clients,
                       cycle_events, appends, got, resp, handlers, more_threads>>

\* up to the model call
PreloadGenStart(t) ==
    /\ threads[t].pc \in GenStartPcs
    /\ PreloadGenerate(t, ResponsesNow)

\* from the model's answer on
PreloadGenFinish(t) ==
    /\ threads[t].pc \in {"gen_call"} \cup GenStorePcs
    /\ PreloadGenerate(t, ResponsesNow)

\* PreloadStored without the test for an error result
PreloadStored_AnyResult(cache, next_round) ==
    IF Truthy(next_round) THEN next_round ELSE cache

\* lines 665-674: what the cache holds after the result was looked at
PreloadStored(cache, next_round) ==
    IF IsErrorResult(next_round) THEN cache
    ELSE IF Truthy(next_round) THEN next_round
    ELSE cache

PreloadStore(t) ==
    /\ threads[t].pc = "store"
    /\ preloaded_round' = PreloadStored(preloaded_round, threads[t].next_round)
    /\ threads' = [threads EXCEPT ![t].pc = "finally"]
    /\ UNCHANGED <<configVars, storeVars, current_session_id, new_round_requested,
                   is_preloading, message_queues, sched, trig, clients,
                   gen_seq, gen_budget, cycle_events, appends, got, resp, handlers, more_threads>>

\* PreloadFinally as an epilogue that an exception skips
PreloadFinally_SkippedOnRaise(t) ==
    /\ threads[t].pc = "finally"
    /\ is_preloading' = (threads[t].next_round = None)
    /\ threads' = [threads EXCEPT ![t] = ThreadLocals("idle")]
    /\ UNCHANGED <<configVars, storeVars, current_session_id, new_round_requested,
                   preloaded_round, message_queues, sched, trig, clients,
                   gen_seq, gen_budget, cycle_events, appends, got, resp, handlers, more_threads>>

\* lines 675-678
PreloadFinally(t) ==
    /\ threads[t].pc = "finally"
    /\ is_preloading' = FALSE
    /\ threads' = [threads EXCEPT ![t] = ThreadLocals("idle")]
    /\ UNCHANGED <<configVars, storeVars, current_session_id, new_round_requested,
                   preloaded_round, message_queues, sched, trig, clients,
                   gen_seq, gen_budget, cycle_events, appends, got, resp, handlers, more_threads>>

----------------------------------------------------------------------------
(* GET /api/trigger_new_round (main.py 686-722): the flag is read and then *)
(* written, with no lock taken                                             *)

\* a handler slot that can take the next request: no request served yet,
\* or the last one answered with 200 or with 202
TriggerReady == {"idle", "r200", "r202"}

\* TriggerRead that takes the success branch whatever the flag is
TriggerRead_AlwaysSet(h) ==
    /\ trig[h] \in TriggerReady
    /\ trig' = [trig EXCEPT ![h] = "set"]
    /\ UNCHANGED <<configVars, storeVars, current_session_id, hubVars, sched,
                   threads, clients, gen_seq, gen_budget, cycle_events, appends, got, resp, handlers, more_threads>>

\* lines 707 and 712-715: the flag is read; when it is set the handler
\* answers 202 and writes nothing
TriggerRead(h) ==
    /\ trig[h] \in TriggerReady
    /\ trig' = [trig EXCEPT ![h] = IF new_round_requested THEN "r202" ELSE "set"]
    /\ UNCHANGED <<configVars, storeVars, current_session_id, hubVars, sched,
                   threads, clients, gen_seq, gen_budget, cycle_events, appends, got, resp, handlers, more_threads>>

\* lines 708-711: the flag is set and the handler answers 200
TriggerSet(h) ==
    /\ trig[h] = "set"
    /\ new_round_requested' = TRUE
    /\ trig' = [trig EXCEPT ![h] = "r200"]
    /\ UNCHANGED <<configVars, storeVars, current_session_id, preloaded_round,
                   is_preloading, message_queues, sched, threads, clients,
                   gen_seq, gen_budget, cycle_events, appends, got, resp, handlers, more_threads>>

----------------------------------------------------------------------------
(* GET /api/game_stream (main.py 944-1015) *)

OffClients == {c \in ClientIds : clients[c] = "off"}

\* lines 964-969: a new queue is registered under the lock
StreamConnect ==
    /\ OffClients # {}
    /\ LET c == CHOOSE x \in OffClients : \A y \in OffClients : x <= y
       IN  /\ message_queues' =
                 [k \in DOMAIN message_queues \cup {c} |->
                     IF k = c THEN <<>> ELSE message_queues[k]]
           /\ clients' = [clients EXCEPT ![c] = "auto"]
    /\ UNCHANGED <<configVars, storeVars, current_session_id, new_round_requested,
                   preloaded_round, is_preloading, sched, threads, trig,
                   gen_seq, gen_budget, cycle_events, appends, got, resp, handlers, more_threads>>

\* line 973
StreamAutoRead(c) ==
    /\ clients[c] = "auto"
    /\ clients' = [clients EXCEPT ![c] =
                      IF new_round_requested THEN "created" ELSE "auto_set"]
    /\ UNCHANGED <<configVars, storeVars, current_session_id, hubVars, sched,
                   threads, trig, gen_seq, gen_budget, cycle_events, appends, got, resp, handlers, more_threads>>

\* line 975; the handler then returns the response around the generator
\* stream(), which has not run yet (lines 1008-1015)
StreamAutoSet(c) ==
    /\ clients[c] = "auto_set"
    /\ new_round_requested' = TRUE
    /\ clients' = [clients EXCEPT ![c] = "created"]
    /\ UNCHANGED <<configVars, storeVars, current_session_id, preloaded_round,
                   is_preloading, message_queues, sched, threads, trig,
                   gen_seq, gen_budget, cycle_events, appends, got, resp, handlers, more_threads>>

\* lines 979-983: the server asks the generator for its first output and
\* stream() runs up to the yield of the connection message, inside the try
StreamStart(c) ==
    /\ clients[c] = "created"
    /\ clients' = [clients EXCEPT ![c] = "streaming"]
    /\ UNCHANGED <<configVars, storeVars, current_session_id, hubVars, sched,
                   threads, trig, gen_seq, gen_budget, cycle_events, appends, got, resp, handlers, more_threads>>

\* the connection ends before the generator was asked for anything (a HEAD
\* request, whose response body is never iterated): closing a generator
\* that has not started runs none of its body, so the finally block of
\* lines 999-1005 does not run and the queue stays registered
StreamAbort(c) ==
    /\ clients[c] = "created"
    /\ clients' = [clients EXCEPT ![c] = "aborted"]
    /\ UNCHANGED <<configVars, storeVars, current_session_id, hubVars, sched,
                   threads, trig, gen_seq, gen_budget, cycle_events, appends, got, resp, handlers, more_threads>>

\* lines 985-991: the delivery loop takes the next event off its queue
StreamDeliver(c) ==
    /\ clients[c] = "streaming"
    /\ c \in DOMAIN message_queues
    /\ message_queues[c] # <<>>
    /\ message_queues' = [message_queues EXCEPT ![c] = Tail(@)]
    /\ UNCHANGED <<configVars, storeVars, current_session_id, new_round_requested,
                   preloaded_round, is_preloading, sched, threads, trig, clients,
                   gen_seq, gen_budget, cycle_events, appends, got, resp, handlers, more_threads>>

\* lines 996-1005: the client goes away and the queue is removed
StreamDisconnect(c) ==
    /\ clients[c] = "streaming"
    /\ message_queues' = [k \in DOMAIN message_queues \ {c} |-> message_queues[k]]
    /\ clients' = [clients EXCEPT ![c] = "closed"]
    /\ UNCHANGED <<configVars, storeVars, current_session_id, new_round_requested,
                   preloaded_round, is_preloading, sched, threads, trig,
                   gen_seq, gen_budget, cycle_events, appends, got, resp, handlers, more_threads>>

----------------------------------------------------------------------------
(* Spec: the scheduler, its preload threads and the trigger handlers, with *)
(* no stream connected.  SpecHub: the scheduler, its preload threads and   *)
(* stream connections, with the in-memory backend.                         *)

Init ==
    /\ redis_client \in BOOLEAN
    /\ anthropic_client \in BOOLEAN
    /\ claude_prompt \in BOOLEAN
    /\ InitStore /\ InitHub /\ InitProcs(MaxThreads, MaxTriggers, 0)
    /\ InitBook(IF redis_client THEN RedisGen ELSE MaxGen)

Scheduler ==
    \/ SchedPoll \/ SchedTake \/ SchedGenStart \/ SchedGenFinish
    \/ SchedDispatch \/ SchedPostCheck \/ SchedPostStart \/ SchedClear
    \/ SchedIdle \/ SchedIdleStart

Preloader(t) ==
    \/ PreloadCheck(t) \/ PreloadGenStart(t) \/ PreloadGenFinish(t)
    \/ PreloadStore(t) \/ PreloadFinally(t)

\* the preload threads: those in the slots and those beyond
Preloaders == (\E t \in ThreadIds : Preloader(t)) \/ PreloadCheckMore

Trigger(h) == TriggerRead(h) \/ TriggerSet(h)

\* a trigger handler that serves one request
TriggerOnce(h) == (trig[h] = "idle" /\ TriggerRead(h)) \/ TriggerSet(h)

Stream ==
    \/ StreamConnect
    \/ \E c \in ClientIds : \/ StreamAutoRead(c) \/ StreamAutoSet(c)
                            \/ StreamStart(c) \/ StreamAbort(c)
                            \/ StreamDeliver(c) \/ StreamDisconnect(c)

Next ==
    \/ Scheduler
    \/ Preloaders
    \/ \E h \in TriggerIds : Trigger(h)

Spec == Init /\ [][Next]_vars

InitHubSpec ==
    /\ redis_client = FALSE
    /\ anthropic_client = TRUE
    /\ claude_prompt = TRUE
    /\ InitStore /\ InitHub /\ InitProcs(HubThreads, 0, HubClients) /\ InitBook(HubGen)

\* the requests are those of the stream connections (lines 971-976), and
\* every connection of the run has a slot of its own, so the events of a
\* run, which broadcast_message puts on queues without a bound, are no more
\* than HubClients
NextHub ==
    \/ Scheduler
    \/ Preloaders
    \/ Stream

\* SpecFlag: as Spec, with trigger handlers that overlap
InitFlag ==
    /\ redis_client = FALSE
    /\ anthropic_client = TRUE
    /\ claude_prompt = TRUE
    /\ InitStore /\ InitHub /\ InitProcs(HubThreads, FlagTriggers, 0) /\ InitBook(HubGen)

SpecFlag == InitFlag /\ [][Next]_vars

SpecHub == InitHubSpec /\ [][NextHub]_vars

----------------------------------------------------------------------------
(* SpecExtract: the extraction of the JSON payload from the response text  *)
(* (main.py 390-438, 469-472).  A text is a sequence of tokens, each one   *)
(* standing for a piece of text:                                           *)
(*   "F"  ```                 "J"  json                                    *)
(*   "{"  {                   "}"  }                                       *)
(*   "K"  "statements":[]     "E"  \"statements\":[]                       *)
(*   "c"  x                   "w"  a space                                 *)

MaxText == 5

Tokens == {"F", "J", "{", "}", "K", "E", "c", "w"}

Texts == UNION {[1..n -> Tokens] : n \in 0..MaxText}

\* str.find from a position on, as a 1-based index, 0 when there is none
Find(text, tok, from) ==
    LET at == {i \in from..Len(text) : text[i] = tok}
    IN  IF at = {} THEN 0 ELSE CHOOSE i \in at : \A j \in at : i <= j

\* str.rfind, as a 1-based index, 0 when there is none
RFind(text, tok) ==
    LET at == {i \in 1..Len(text) : text[i] = tok}
    IN  IF at = {} THEN 0 ELSE CHOOSE i \in at : \A j \in at : j <= i

\* str.strip()
Strip(text) ==
    LET at == {i \in 1..Len(text) : text[i] # "w"}
    IN  IF at = {} THEN <<>>
        ELSE SubSeq(text, CHOOSE i \in at : \A j \in at : i <= j,
                          CHOOSE i \in at : \A j \in at : j <= i)

\* lines 394-395: re.findall(r"```(?:json)?(.*?)```", text, re.DOTALL), the
\* matches from position `from` on
RECURSIVE code_blocks(_, _)
code_blocks(text, from) ==
    LET open == Find(text, "F", from)
    IN  IF open = 0 THEN <<>>
        ELSE LET tagged == open < Len(text) /\ text[open + 1] = "J"
                 start == IF tagged THEN open + 2 ELSE open + 1
                 close == Find(text, "F", start)
             IN  IF close = 0 THEN <<>>
                 ELSE <<SubSeq(text, start, close - 1)>>
                          \o code_blocks(text, close + 1)

\* potential_json with the first code block in place of the last
potential_json_FirstBlock(text) ==
    LET blocks == code_blocks(text, 1)
        json_start == Find(text, "{", 1)
        json_end == RFind(text, "}")
    IN  IF blocks # <<>> THEN Strip(blocks[1])
        ELSE IF json_start > 0 /\ json_end > json_start
             THEN SubSeq(text, json_start, json_end)
        ELSE text

\* lines 397-411: the candidate
potential_json(text) ==
    LET blocks == code_blocks(text, 1)
        json_start == Find(text, "{", 1)
        json_end == RFind(text, "}")
    IN  IF blocks # <<>> THEN Strip(blocks[Len(blocks)])
        ELSE IF json_start > 0 /\ json_end > json_start
             THEN SubSeq(text, json_start, json_end)
        ELSE text

\* does json.loads accept the text?  Of the texts the tokens can spell it
\* accepts {} and {"statements":[]}, with spaces anywhere around the tokens
loads_ok(text) ==
    LET t == Strip(text)
    IN  /\ Len(t) >= 2
        /\ t[1] = "{"
        /\ t[Len(t)] = "}"
        /\ SelectSeq(SubSeq(t, 2, Len(t) - 1), LAMBDA x : x # "w") \in {<<>>, <<"K">>}

\* json.loads of a text it accepts
loads(text) ==
    IF \E i \in 1..Len(text) : text[i] = "K"
    THEN Value("dict", {"statements"}, 0, EmptyList, "", 0)
    ELSE Value("dict", {}, 0, StmtsAbsent, "", 0)

\* lines 424-429: strip, then replace every \" by "
cleaned_json(text) ==
    LET t == Strip(text)
    IN  [i \in 1..Len(t) |-> IF t[i] = "E" THEN "K" ELSE t[i]]

\* lines 415-432: the text handed to the final json.loads
json_text(text) ==
    IF loads_ok(potential_json(text)) THEN potential_json(text)
    ELSE cleaned_json(potential_json(text))

\* lines 390-438, 469-472: what the response text yields
Extracted(text) ==
    IF loads_ok(json_text(text))
    THEN [outcome |-> "parsed", value |-> loads(json_text(text))]
    ELSE [outcome |-> "unparseable", value |-> None]

\* generate_new_round from the model's answer on, for the text in `got`
ExtractStep ==
    /\ CallPc \notin {"done", "raised"}
    /\ CallerRun("extract", "gen_call", {Extracted(got)}, Cmds)

InitExtract ==
    /\ redis_client \in BOOLEAN
    /\ anthropic_client = TRUE
    /\ claude_prompt = TRUE
    /\ session_history = EmptyHistory
    /\ redis_sessions = [s \in SessionIds |->
                            IF s = 1 THEN [exists |-> TRUE, round_count |-> 0]
                            ELSE NoHash]
    /\ redis_statements = [s \in SessionIds |-> <<>>]
    /\ current_session_id = 1                   \* lines 290-291 have run
    /\ InitHub /\ InitProcs(0, 0, 0)
    /\ gen_seq = 0 /\ gen_budget = 1 /\ cycle_events = 0 /\ appends = 0
    /\ got \in Texts
    /\ resp = <<>>

NextExtract == ExtractStep

SpecExtract == InitExtract /\ [][NextExtract]_vars

----------------------------------------------------------------------------
(* SpecLog: generate_new_round with a Redis client whose writes of the     *)
(* prompt log (main.py 335-347) and of the response log (376-388) can      *)
(* fail.  Each write is lpush, ltrim, expire; a failing command raises.    *)

LogGen == 2

LogCmds == [Cmds EXCEPT !.logfails = LogFailures]

\* lines 278-349: up to the model call, the prompt log written on the way
LogCallStart ==
    /\ CallPc \in NotCalling \cup GenStartPcs
    /\ CallerRun("generate_logged", "gen_start", ResponsesNow, LogCmds)

\* lines 351-489: the model call returns, the response log is written, the
\* response is parsed, stored and returned
LogCallFinish ==
    /\ CallPc \in {"gen_call"} \cup GenStorePcs
    /\ CallerRun("generate_logged", "gen_start", ResponsesNow, LogCmds)

InitLog ==
    /\ redis_client \in BOOLEAN
    /\ anthropic_client = TRUE
    /\ claude_prompt = TRUE
    /\ InitStore /\ InitHub /\ InitProcs(0, 0, 0) /\ InitBook(LogGen)

NextLog == LogCallStart \/ LogCallFinish

SpecLog == InitLog /\ [][NextLog]_vars

----------------------------------------------------------------------------
(* SpecPublish: broadcast_message (main.py 517-534) iterating over the     *)
(* registry one queue at a time, while stream handlers register (967-968)  *)
(* and remove (1001-1004) their queues.  All three take `lock`.            *)

PubClients == 3
PubEvents == 2

\* RegistryLockFree of a registry without a lock
RegistryLockFree_NoLock == TRUE

\* nobody is inside a `with lock` block
RegistryLockFree ==
    /\ sched.pc # "iter"
    /\ \A c \in DOMAIN clients : clients[c] \notin {"registering", "removing"}

pubFrame == <<configVars, storeVars, current_session_id, new_round_requested,
              preloaded_round, is_preloading, threads, trig, gen_budget,
              cycle_events, appends, got, resp, handlers, more_threads>>

\* the frame of the event being published
PubEventFrame(n) == SseFrame(MessageData("new_round", GoodRound(n)))

\* line 517: the publisher enters the block; the iteration starts over the
\* registry as it is now
PubBegin ==
    /\ sched.pc = "poll"
    /\ gen_seq < PubEvents
    /\ RegistryLockFree
    /\ sched' = [pc |-> "iter", seen |-> DOMAIN message_queues,
                 todo |-> DOMAIN message_queues]
    /\ gen_seq' = gen_seq + 1
    /\ UNCHANGED <<message_queues, clients>>
    /\ UNCHANGED pubFrame

\* lines 524-529: the next queue of the iteration gets the message
PubPut ==
    /\ sched.pc = "iter"
    /\ sched.todo # {}
    /\ LET c == CHOOSE x \in sched.todo : \A y \in sched.todo : x <= y
       IN  /\ message_queues' =
                 IF c \in DOMAIN message_queues
                 THEN [message_queues EXCEPT ![c] = Append(@, PubEventFrame(gen_seq))]
                 ELSE message_queues
           /\ sched' = [sched EXCEPT !.todo = @ \ {c}]
    /\ UNCHANGED <<clients, gen_seq>>
    /\ UNCHANGED pubFrame

\* line 533: the iteration is over, the block is left
PubEnd ==
    /\ sched.pc = "iter"
    /\ sched.todo = {}
    /\ sched' = [sched EXCEPT !.pc = "poll"]
    /\ UNCHANGED <<message_queues, clients, gen_seq>>
    /\ UNCHANGED pubFrame

\* line 967: a stream handler enters the block
RegBegin(c) ==
    /\ clients[c] = "off"
    /\ RegistryLockFree
    /\ clients' = [clients EXCEPT ![c] = "registering"]
    /\ UNCHANGED <<message_queues, sched, gen_seq>>
    /\ UNCHANGED pubFrame

\* line 968: the queue is registered, the block is left
RegEnd(c) ==
    /\ clients[c] = "registering"
    /\ message_queues' =
          [k \in DOMAIN message_queues \cup {c} |->
              IF k = c THEN <<>> ELSE message_queues[k]]
    /\ clients' = [clients EXCEPT ![c] = "streaming"]
    /\ UNCHANGED <<sched, gen_seq>>
    /\ UNCHANGED pubFrame

\* line 1001: the generator's finally clause enters the block
DelBegin(c) ==
    /\ clients[c] = "streaming"
    /\ RegistryLockFree
    /\ clients' = [clients EXCEPT ![c] = "removing"]
    /\ UNCHANGED <<message_queues, sched, gen_seq>>
    /\ UNCHANGED pubFrame

\* lines 1002-1004: the queue is removed, the block is left
DelEnd(c) ==
    /\ clients[c] = "removing"
    /\ message_queues' =
          [k \in DOMAIN message_queues \ {c} |-> message_queues[k]]
    /\ clients' = [clients EXCEPT ![c] = "ended"]
    /\ UNCHANGED <<sched, gen_seq>>
    /\ UNCHANGED pubFrame

InitPublish ==
    /\ redis_client = FALSE
    /\ anthropic_client = TRUE
    /\ claude_prompt = TRUE
    /\ InitStore /\ InitHub /\ InitBook(0)
    /\ handlers = <<>>
    /\ sched = [pc |-> "poll", seen |-> {}, todo |-> {}]
    /\ threads = <<>>
    /\ more_threads = 0
    /\ trig = <<>>
    /\ clients = [c \in 1..PubClients |-> "off"]

NextPublish ==
    \/ PubBegin \/ PubPut \/ PubEnd
    \/ \E c \in DOMAIN clients : RegBegin(c) \/ RegEnd(c) \/ DelBegin(c) \/ DelEnd(c)

SpecPublish == InitPublish /\ [][NextPublish]_vars

----------------------------------------------------------------------------
(* SpecIdle: the scheduler with no request pending (main.py 628-639) and   *)
(* the preload threads it starts (641-678).  The scheduler and the threads *)
(* keep running, and a model call that can return a well-formed round      *)
(* again and again eventually does.                                        *)

IdleGen == 3

\* the model answers a preload thread's call with a well-formed round
PreloadGoodFinish(t) ==
    /\ threads[t].pc = "gen_call"
    /\ gen_budget > 0
    /\ PreloadGenerate(t, {[outcome |-> "parsed", value |-> GoodRound(gen_seq + 1)]})

InitIdle ==
    /\ redis_client \in BOOLEAN
    /\ anthropic_client = TRUE
    /\ claude_prompt = TRUE
    /\ InitStore /\ InitHub /\ InitProcs(MaxThreads, 0, 0) /\ InitBook(IdleGen)

NextIdle ==
    \/ SchedPoll
    \/ SchedIdle
    \/ SchedIdleStart
    \/ Preloaders

SpecIdle ==
    /\ InitIdle /\ [][NextIdle]_vars
    /\ WF_vars(SchedPoll \/ SchedIdle \/ SchedIdleStart)
    /\ \A t \in 1..MaxThreads :
          WF_vars(Preloader(t)) /\ SF_vars(PreloadGoodFinish(t))
    /\ WF_vars(PreloadCheckMore)

----------------------------------------------------------------------------
(* SpecLost: the scheduler and stream handlers that connect and stay       *)
(* connected (no trigger is called, nobody disconnects), all of them       *)
(* scheduled fairly.                                                       *)

StayingStream ==
    \/ StreamConnect
    \/ \E c \in ClientIds : \/ StreamAutoRead(c) \/ StreamAutoSet(c)
                            \/ StreamStart(c) \/ StreamDeliver(c)

InitLost ==
    /\ redis_client = FALSE
    /\ anthropic_client = TRUE
    /\ claude_prompt = TRUE
    /\ InitStore /\ InitHub /\ InitProcs(HubThreads, 0, HubClients) /\ InitBook(HubGen)

NextLost ==
    \/ Scheduler
    \/ Preloaders
    \/ StayingStream

SpecLost ==
    /\ InitLost /\ [][NextLost]_vars
    /\ WF_vars(Scheduler)
    /\ \A t \in 1..HubThreads : WF_vars(Preloader(t))
    /\ WF_vars(PreloadCheckMore)
    /\ WF_vars(StayingStream)

----------------------------------------------------------------------------
(* SpecSwitch: the scheduler, its preload threads and HubTriggers trigger  *)
(* requests, with the Redis backend and POST /api/session                  *)
(* {"action": "new"} arriving at any moment (main.py 922-930)              *)

InitSwitch ==
    /\ redis_client = TRUE
    /\ anthropic_client = TRUE
    /\ claude_prompt = TRUE
    /\ InitStore /\ InitHub /\ InitProcs(HubThreads, HubTriggers, 0) /\ InitBook(HubGen)

\* action "new" of POST /api/session
SwitchNew ==
    \E c \in DOMAIN handlers : SessionRun(c, "new", Cmds, MoreSessions(SwitchSessions))

NextSwitch ==
    \/ Scheduler
    \/ Preloaders
    \/ \E h \in TriggerIds : TriggerOnce(h)
    \/ SwitchNew

SpecSwitch == InitSwitch /\ [][NextSwitch]_vars

----------------------------------------------------------------------------
(* SpecFrame: the scheduler, its preload threads and one stream connection *)
(* that stays, with either backend, and one reset or new action of         *)
(* POST /api/session arriving at any moment.  The model answers a call     *)
(* with a well-formed round and later with an error of the client; any     *)
(* Redis command of the reset can fail.                                    *)

FrameClients == 1

InitFrame ==
    /\ redis_client \in BOOLEAN
    /\ anthropic_client = TRUE
    /\ claude_prompt = TRUE
    /\ InitStore /\ InitHub /\ InitProcs(HubThreads, 0, FrameClients)
    /\ InitBook(HubGen)

\* the answers of the model in these runs: well-formed rounds, HubGen of
\* them, and an error of the client from then on
FrameResponses ==
    {r \in ResponsesNow :
        IF gen_budget > 0 THEN r.value = GoodRound(gen_seq + 1)
        ELSE r.outcome = "API Authentication Error"}

\* generate_new_round called by the scheduler or by a preload thread
FrameGenerate ==
    \/ /\ sched.pc \in GenStartPcs \cup {"gen_call"} \cup GenStorePcs
       /\ SchedGenerate(FrameResponses)
    \/ \E t \in ThreadIds :
          /\ threads[t].pc \in GenStartPcs \cup {"gen_call"} \cup GenStorePcs
          /\ PreloadGenerate(t, FrameResponses)

\* the other steps of the scheduler and of the preload threads
FrameScheduler ==
    \/ SchedPoll \/ SchedTake \/ SchedDispatch \/ SchedPostCheck
    \/ SchedPostStart \/ SchedClear \/ SchedIdle \/ SchedIdleStart

FramePreloaders ==
    \/ \E t \in ThreadIds : PreloadCheck(t) \/ PreloadStore(t) \/ PreloadFinally(t)
    \/ PreloadCheckMore

\* the commands of the reset (892-904), all of them steps, any of which can
\* raise
FrameCmds == [Cmds EXCEPT !.reset = ResetOps, !.failing = Range(ResetOps)]

\* action "reset" of POST /api/session, the first session action of the run
FrameReset ==
    \E c \in DOMAIN handlers : SessionRun(c, "reset", FrameCmds, resp = <<>>)

\* action "new" of POST /api/session, the first session action of the run
FrameNew ==
    \E c \in DOMAIN handlers : SessionRun(c, "new", Cmds, resp = <<>>)

NextFrame ==
    \/ FrameScheduler
    \/ FrameGenerate
    \/ FramePreloaders
    \/ StayingStream
    \/ FrameNew
    \/ FrameReset

SpecFrame == InitFrame /\ [][NextFrame]_vars

----------------------------------------------------------------------------
(* SpecRace: two threads that call the store and the session endpoint at    *)
(* the same time: one inside update_session_history (main.py 225-258)      *)
(* while the other is inside get_session_history (173-212), a reset or a   *)
(* "new" (877-942).  With Redis each command is a step; the in-memory      *)
(* branches run under history_lock and are one step each.                  *)

RaceAppends == 2
RaceThreads == 2

RaceAppend ==
    \E c \in DOMAIN handlers :
        SessionRun(c, "append", Cmds, MoreAppends(RaceAppends))

RaceGet == \E c \in DOMAIN handlers : SessionRun(c, "get", Cmds, TRUE)

RaceReset == \E c \in DOMAIN handlers : SessionRun(c, "reset", Cmds, TRUE)

RaceNew ==
    \E c \in DOMAIN handlers : SessionRun(c, "new", Cmds, MoreSessions(MaxSessions))

InitRace ==
    /\ redis_client \in BOOLEAN
    /\ anthropic_client = TRUE
    /\ claude_prompt = TRUE
    /\ InitStore /\ InitHub /\ InitBook(0)
    /\ sched = SchedLocals("poll")
    /\ threads = <<>>
    /\ more_threads = 0
    /\ trig = <<>>
    /\ clients = <<>>
    /\ handlers = [c \in 1..RaceThreads |-> IdleHandler]

NextRace == RaceAppend \/ RaceGet \/ RaceReset \/ RaceNew

SpecRace == InitRace /\ [][NextRace]_vars

----------------------------------------------------------------------------
(* SpecLocks: the three locks (main.py 113-115).  Each thread runs the lock *)
(* operations of a path through its code, in the order of the code.  The   *)
(* paths are put together as the code is: a `with l:` block is the acquire *)
(* of l, a path of its body and the release of l; a call is a path of the  *)
(* function called.  A lock is held from its acquire to its release, and   *)
(* threading.Lock is not reentrant.  threads maps each thread to the       *)
(* operations it has left on its path and the locks it holds.              *)

Locks == {"lock", "preload_lock", "history_lock"}

Acq(l) == [op |-> "acquire", lock |-> l]
Rel(l) == [op |-> "release", lock |-> l]

\* the thread ends on an exception that nothing catches
Die == [op |-> "die", lock |-> ""]

\* the paths of statements that take no lock and call no function that
\* takes one
Skip == {<<>>}

\* a path of A, then a path of B
Cat(A, B) == {x \o y : x \in A, y \in B}

\* with l: Body.  However the body is left (its end, a return, an
\* exception), the lock is released.
Block(l, Body) == {<<Acq(l)>> \o x \o <<Rel(l)>> : x \in Body}

\* get_session_history: the in-memory history is copied under history_lock
\* (175-176); with Redis no lock is taken (178-207) unless a command fails,
\* and then the fallback is copied under history_lock (208-212)
GetHistoryLocks ==
    IF redis_client
    THEN Skip \cup Block("history_lock", Skip)
    ELSE Block("history_lock", Skip)

\* update_session_history: the in-memory append under history_lock
\* (227-233); with Redis no lock (235-250) unless a command fails, and then
\* the fallback append under history_lock (251-258)
UpdateHistoryLocks ==
    IF redis_client
    THEN Skip \cup Block("history_lock", Skip)
    ELSE Block("history_lock", Skip)

\* how a call of generate_new_round ends, for its caller: a round is
\* returned, an error or an empty result is returned, an exception leaves it
GenEnds == {"round", "error", "raised"}

\* generate_new_round that ends as said.  With no client or no prompt an
\* error is returned before the history is read (282-287).  Otherwise a
\* round is returned after the history was read (291) and the round
\* appended (447); an error is returned after the history was read (the API
\* and parse errors, 469-489) or after the append (451-455 raising into
\* 487); the exception is the history text failing to render (296-306).
GenerateLocks(end) ==
    IF ~anthropic_client \/ ~claude_prompt
    THEN IF end = "error" THEN Skip ELSE {}
    ELSE CASE end = "round" -> Cat(GetHistoryLocks, UpdateHistoryLocks)
           [] end = "error" ->
                 GetHistoryLocks \cup Cat(GetHistoryLocks, UpdateHistoryLocks)
           [] end = "raised" -> GetHistoryLocks

\* broadcast_message: the queues are filled under lock (517-534); the body
\* puts messages on queues and calls nothing of main.py
BroadcastLocks == Block("lock", Skip)

\* background_task from the result of a generation on.  A round: published
\* (609), is_preloading and preloaded_round read under preload_lock
\* (612-614), the thread started outside the block (616-618), the flag
\* reset under lock (625-626).  An error or an empty result: published
\* (605, 621), the flag reset.  An exception ends the thread.
AfterGenerate(end) ==
    CASE end = "round" ->
            Cat(BroadcastLocks,
                Cat(Block("preload_lock", Skip), Block("lock", Skip)))
      [] end = "error" -> Cat(BroadcastLocks, Block("lock", Skip))
      [] end = "raised" -> {<<Die>>}

\* background_task after the second generation of lines 585-602 (the
\* branch for a cached result that is an error): whatever is returned is
\* published (595, 599, 602) and the flag reset (625-626)
AfterRetry(end) ==
    IF end = "raised" THEN {<<Die>>} ELSE Cat(BroadcastLocks, Block("lock", Skip))

\* background_task: one iteration of the loop.  The flag is read under
\* lock (559-561).  With a request, the cache is taken under preload_lock
\* (568-572); then the cached round goes on as a generated one does, or as
\* an error into the second generation, or generate_new_round is called
\* (579).  With no request, preloaded_round and is_preloading are read
\* under preload_lock (631-633) and the thread started outside (635-637).
SchedulerPrograms ==
    Cat(Block("lock", Skip),
        Cat(Block("preload_lock", Skip),
            AfterGenerate("round")
            \cup UNION {Cat(GenerateLocks(end), AfterRetry(end)) : end \in GenEnds}
            \cup UNION {Cat(GenerateLocks(end), AfterGenerate(end)) : end \in GenEnds})
        \cup Block("preload_lock", Skip))

\* PreloadPrograms that keeps preload_lock while it generates
PreloadPrograms_Nested ==
    Cat(Block("preload_lock", GenerateLocks("round")), Block("preload_lock", Skip))

\* preload_next_round: the check under preload_lock, left by the return
\* (655-658) or by the end of the block with the flag set (659); then
\* generate_new_round (663), the round stored under preload_lock (671-672)
\* when one was returned, and in any case, also on an exception, the flag
\* reset under preload_lock in the finally clause (675-678)
PreloadPrograms ==
    Block("preload_lock", Skip)
    \cup Cat(Block("preload_lock", Skip),
             UNION {Cat(GenerateLocks(end),
                        Cat(IF end = "round" THEN Block("preload_lock", Skip) ELSE Skip,
                            Block("preload_lock", Skip))) : end \in GenEnds})

\* game_stream: the queue registered under lock (967-968); the queue
\* removed under lock in the generator's finally clause (1002-1005), which
\* runs when the generator was started; a connection that is gone before
\* that never gets there
StreamPrograms ==
    Block("lock", Skip) \cup Cat(Block("lock", Skip), Block("lock", Skip))

\* manage_session: get_session_history for a GET (765); for "reset" the
\* Redis commands with no lock (885-910) or the in-memory block under
\* history_lock (913-919); no lock for "new" and for an invalid action.
\* trigger_new_round takes no lock at all.
SessionPrograms ==
    GetHistoryLocks
    \cup (IF redis_client THEN Skip ELSE Block("history_lock", Skip))
    \cup Skip

\* the threads: the scheduler, a preload thread, a stream handler and a
\* session handler
LockProcs == {"scheduler", "preload", "stream", "session"}

Programs(p) ==
    CASE p = "scheduler" -> SchedulerPrograms
      [] p = "preload" -> PreloadPrograms
      [] p = "stream" -> StreamPrograms
      [] p = "session" -> SessionPrograms

\* the locks thread p holds
Held(p) == threads[p].held

LockFree(l) == \A q \in LockProcs : l \notin Held(q)

\* the operation thread p is at ("end" when its path is done)
NextOp(p) ==
    IF threads[p].rest # <<>>
    THEN Head(threads[p].rest)
    ELSE [op |-> "end", lock |-> ""]

lockFrame ==
    <<configVars, storeVars, current_session_id, hubVars, sched, trig, clients,
      gen_seq, gen_budget, cycle_events, appends, got, resp, handlers, more_threads>>

\* l.acquire(): the thread goes on when the lock is free, its own hold of
\* it included
Acquire(p) ==
    /\ NextOp(p).op = "acquire"
    /\ LockFree(NextOp(p).lock)
    /\ threads' = [threads EXCEPT ![p].rest = Tail(@),
                                  ![p].held = @ \cup {NextOp(p).lock}]
    /\ UNCHANGED lockFrame

\* l.release()
Release(p) ==
    /\ NextOp(p).op = "release"
    /\ threads' = [threads EXCEPT ![p].rest = Tail(@),
                                  ![p].held = @ \ {NextOp(p).lock}]
    /\ UNCHANGED lockFrame

\* the thread goes round its loop, or the next thread of its kind starts;
\* a thread that ended on an exception does not
Restart(p) ==
    /\ NextOp(p).op = "end"
    /\ \E prog \in Programs(p) :
          threads' = [threads EXCEPT ![p] = [rest |-> prog, held |-> @.held]]
    /\ UNCHANGED lockFrame

InitLocks ==
    /\ redis_client \in BOOLEAN
    /\ anthropic_client \in BOOLEAN
    /\ claude_prompt \in BOOLEAN
    /\ InitStore /\ InitHub /\ InitBook(0)
    /\ handlers = <<>>
    /\ sched = SchedLocals("poll")
    /\ trig = [h \in {} |-> "idle"]
    /\ clients = [c \in {} |-> "off"]
    /\ threads = [p \in LockProcs |-> [rest |-> <<>>, held |-> {}]]
    /\ more_threads = 0

NextLocks == \E p \in LockProcs : Acquire(p) \/ Release(p) \/ Restart(p)

\* fair scheduling: a thread that holds a lock goes on to release it, and a
\* thread whose lock is free again and again gets it
SpecLocks ==
    /\ InitLocks /\ [][NextLocks]_vars
    /\ \A p \in LockProcs : SF_vars(Acquire(p)) /\ WF_vars(Release(p))

----------------------------------------------------------------------------
(* SpecSid: get_session_id (main.py 137-156) called from several threads.  *)
(* The function takes no lock, so its test (149), the uuid4 call (153), the *)
(* assignment (154) and the return (156) are steps of their own.  threads  *)
(* maps each caller to its position and its new_id; got is the sequence of *)
(* identifiers returned so far.                                            *)

SidCallers == DOMAIN threads

\* str(uuid.uuid4()): an identifier that nobody holds
FreshUuid ==
    1 + Max(current_session_id,
            IF SidCallers = {} THEN 0
            ELSE CHOOSE m \in {threads[t].new_id : t \in SidCallers} :
                    \A t \in SidCallers : threads[t].new_id <= m)

sidFrame ==
    <<configVars, storeVars, hubVars, sched, trig, clients,
      gen_seq, gen_budget, cycle_events, appends, resp, handlers, more_threads>>

\* calls begun: returned or in progress
SidBegun == Len(got) + Cardinality({t \in SidCallers : threads[t].pc # "idle"})

\* lines 149-150
SidCheck(t) ==
    /\ threads[t].pc = "idle"
    /\ SidBegun < SidCalls
    /\ IF current_session_id # 0
       THEN /\ got' = Append(got, current_session_id)
            /\ UNCHANGED threads
       ELSE /\ threads' = [threads EXCEPT ![t].pc = "generate"]
            /\ UNCHANGED got
    /\ UNCHANGED current_session_id
    /\ UNCHANGED sidFrame

\* line 153
SidGenerate(t) ==
    /\ threads[t].pc = "generate"
    /\ threads' = [threads EXCEPT ![t] = [pc |-> "store", new_id |-> FreshUuid]]
    /\ UNCHANGED <<current_session_id, got>>
    /\ UNCHANGED sidFrame

\* line 154
SidStore(t) ==
    /\ threads[t].pc = "store"
    /\ current_session_id' = threads[t].new_id
    /\ threads' = [threads EXCEPT ![t].pc = "return"]
    /\ UNCHANGED got
    /\ UNCHANGED sidFrame

\* line 156
SidReturn(t) ==
    /\ threads[t].pc = "return"
    /\ got' = Append(got, threads[t].new_id)
    /\ threads' = [threads EXCEPT ![t].pc = "idle"]
    /\ UNCHANGED current_session_id
    /\ UNCHANGED sidFrame

InitSid ==
    /\ redis_client \in BOOLEAN
    /\ anthropic_client = TRUE
    /\ claude_prompt = TRUE
    /\ InitStore /\ InitHub /\ InitBook(0)
    /\ handlers = <<>>
    /\ sched = SchedLocals("poll")
    /\ trig = [h \in {} |-> "idle"]
    /\ clients = [c \in {} |-> "off"]
    /\ threads = [t \in 1..SidThreads |-> [pc |-> "idle", new_id |-> 0]]
    /\ more_threads = 0

NextSid ==
    \E t \in SidCallers : SidCheck(t) \/ SidGenerate(t) \/ SidStore(t) \/ SidReturn(t)

SpecSid == InitSid /\ [][NextSid]_vars

----------------------------------------------------------------------------
(* Claims about the history store *)

\* C7: with either backend and no backend failure, after k calls of
\* update_session_history on a fresh session get_session_history returns
\* round_count = k and min(k, 100) rounds; in every state, also in the
\* middle of an append, the History of a session has no more than
\* REDIS_MAX_HISTORY rounds.
C7_CountAndLength ==
    /\ got # <<>> =>
          /\ got[1].round_count = appends
          /\ Len(got[1].rounds) = Min(appends, REDIS_MAX_HISTORY)
    /\ Len(session_history.rounds) <= REDIS_MAX_HISTORY
    /\ \A s \in SessionIds : Len(GetHistory(s).rounds) <= REDIS_MAX_HISTORY

\* a get after the append that made the history overflow
C7_Witness ==
    /\ got # <<>>
    /\ appends = REDIS_MAX_HISTORY + 1
    /\ got[1].round_count = REDIS_MAX_HISTORY + 1
    /\ Len(got[1].rounds) = REDIS_MAX_HISTORY

\* C8: with either backend the rounds get_session_history returns are the
\* min(k, 100) rounds appended last, newest first (rounds[0] is the round
\* appended last).
C8_NewestFirst ==
    got # <<>> =>
        got[1].rounds =
            [i \in 1..Min(appends, REDIS_MAX_HISTORY) |-> RoundOf(appends - i + 1)]


\* the call that completes in the step is a get, and the call that
\* completed last before it was the session action `action`
GetFollows(action) ==
    /\ resp # <<>> /\ resp[1].action = action
    /\ resp' # <<>> /\ resp'[1].action = "get"

\* C9: with either backend a reset action completes successfully, and a get
\* that follows it returns round_count 0 and no rounds for the same session id.
C9_ResetClears ==
    /\ [](resp # <<>> /\ resp[1].action = "reset"
            => resp[1].status = 200 /\ resp[1].current = resp[1].session_id)
    /\ [][GetFollows("reset")
            => got' = <<EmptyHistory>> /\ resp'[1].session_id = resp[1].session_id]_vars

\* C10: after a new action the current session id differs from the previous
\* one and a get returns the empty History for it, with either backend and
\* whatever the previous session's history was.
C10_NewSessionEmpty ==
    /\ [](resp # <<>> /\ resp[1].action = "new"
            => resp[1].current # resp[1].session_id)
    /\ [][GetFollows("new")
            => got' = <<EmptyHistory>> /\ resp'[1].session_id = resp[1].current]_vars


----------------------------------------------------------------------------
(* Claims about the scheduler, the preload threads and the hub *)

\* callers that are inside generate_new_round (0 is the scheduler)
Generating ==
    (IF sched.pc \in GenPcs THEN {0} ELSE {})
        \cup {t \in ThreadIds : threads[t].pc \in GenPcs}

\* C1: under every interleaving of triggers, the scheduler and the preload
\* threads, at most one call of generate_new_round is in progress at a time.
C1_SingleFlightGeneration == Cardinality(Generating) <= 1

\* preload threads between their check-and-set and their end
PreloadsInFlight ==
    {t \in ThreadIds : threads[t].pc \in GenPcs \cup {"store", "finally"}}

\* C2: at most one preload is between its check-and-set of is_preloading and
\* its end, however many threads were started; a thread that finds
\* is_preloading set or the cache non-empty ends at once: it does not
\* generate and changes nothing.
C2_SingleFlightPreload ==
    /\ [](Cardinality(PreloadsInFlight) <= 1)
    /\ [][\A t \in ThreadIds :
            (/\ threads[t].pc = "start"
             /\ threads'[t].pc # "start"
             /\ (is_preloading \/ preloaded_round # None))
            => /\ threads'[t].pc = "idle"
               /\ UNCHANGED <<is_preloading, preloaded_round, storeVars, gen_seq>>]_vars
    /\ [][(more_threads' < more_threads /\ (is_preloading \/ preloaded_round # None))
            => UNCHANGED <<threads, is_preloading, preloaded_round, storeVars, gen_seq>>]_vars

\* one preload in flight while another thread has been started
C2_Witness ==
    \E t, u \in ThreadIds :
        /\ threads[t].pc = "gen_call"
        /\ threads[u].pc = "start"
        /\ is_preloading

\* C3: on every path of an iteration that observed the flag (preloaded round
\* used, generation succeeded, generation failed, empty result) the scheduler
\* has published exactly one event when it clears the flag, and none before
\* it has a result.
C3_OneEventPerRequest ==
    /\ sched.pc \in {"take", "dispatch"} \cup GenPcs => cycle_events = 0
    /\ sched.pc \in {"post_check", "post_start", "clear"} => cycle_events = 1

\* about to clear the flag after publishing a round taken from the cache
C3_Witness ==
    /\ sched.pc = "clear"
    /\ Truthy(sched.local_preloaded_round)
    /\ cycle_events = 1

\* subscribers registered before and after a step
Staying == DOMAIN message_queues \cap DOMAIN message_queues'

\* C4: when a trigger is processed, every subscriber that is registered gets
\* exactly one event put on its queue, the same event (type and payload) for
\* all of them, and it is the only event of that iteration.
C4_SameEventToAll ==
    [][\A c, d \in Staying :
          Len(message_queues'[c]) > Len(message_queues[c])
          => /\ message_queues'[c] =
                   Append(message_queues[c], message_queues'[c][Len(message_queues'[c])])
             /\ message_queues'[d] =
                   Append(message_queues[d], message_queues'[c][Len(message_queues'[c])])
             /\ cycle_events = 0 /\ cycle_events' = 1]_vars

\* two subscribers hold the same new_round event
C4_Witness ==
    /\ DOMAIN message_queues = {1, 2}
    /\ Len(message_queues[1]) = 1
    /\ message_queues[1] = message_queues[2]
    /\ message_queues[1][1].data.type = "new_round"

\* C5: the preload cache is empty or holds a round generate_new_round
\* returned as a success: never an error result, never an empty result.
C5_CacheHoldsSuccess ==
    preloaded_round # None =>
        /\ ~IsErrorResult(preloaded_round)
        /\ Truthy(preloaded_round)
        /\ preloaded_round.id \in 1..gen_seq

\* a preload whose generation failed ends with the cache still empty
C5_Witness ==
    \E t \in ThreadIds :
        /\ threads[t].pc = "finally"
        /\ IsErrorResult(threads[t].next_round)
        /\ preloaded_round = None

\* C6: whatever a generation yields (an error of the client, text that does
\* not parse, statements that are missing or are not objects, now or in a
\* round already in the history), the scheduler loop keeps running.
C6_SchedulerNeverStops == sched.pc # "dead"


----------------------------------------------------------------------------
(* Claims about the trigger handler *)

\* C11: a trigger call that finds no request pending sets the flag and
\* answers 200; a call that finds a request pending answers 202 and leaves
\* the flag, the preload cache, is_preloading and the registry as they were.
C11_TriggerStatus ==
    [][\A h \in TriggerIds :
          /\ (trig[h] \in TriggerReady /\ trig'[h] # trig[h])
                => /\ trig'[h] = (IF new_round_requested THEN "r202" ELSE "set")
                   /\ UNCHANGED hubVars
          /\ (trig[h] = "set" /\ trig'[h] # "set")
                => /\ trig'[h] = "r200"
                   /\ new_round_requested'
                   /\ UNCHANGED <<preloaded_round, is_preloading, message_queues>>]_vars

\* a call was answered 202 while the request it found is still pending
C11_Witness ==
    \E h \in TriggerIds : trig[h] = "r202" /\ new_round_requested


\* handlers that found the flag clear (lines 707, 973) and have not yet set
\* it (lines 709, 975)
FlagSetters ==
    {<<"trigger", h>> : h \in {x \in TriggerIds : trig[x] = "set"}}
        \cup {<<"stream", c>> : c \in {x \in ClientIds : clients[x] = "auto_set"}}

\* C12: the check-then-set of the request flag in trigger and in stream
\* connect is one critical section: at most one handler at a time is between
\* finding the flag clear and setting it, so of overlapping trigger calls
\* only one answers 200.
C12_FlagCheckSetAtomic == Cardinality(FlagSetters) <= 1


----------------------------------------------------------------------------
(* Claims about the generator *)

\* the last call of generate_new_round has returned
GenReturned == resp # <<>> /\ resp[1].action = "generate" /\ resp[1].phase = "returned"

\* statements are three statement objects, exactly one of them the lie
WellFormedRound(stmts) ==
    /\ stmts.kind = "objects"
    /\ Len(stmts.lies) = 3
    /\ Cardinality({i \in 1..Len(stmts.lies) : stmts.lies[i]}) = 1

\* C13: every round generate_new_round returns as a success (truthy and not
\* an error result) has exactly three statements, exactly one of them with
\* isLie true.
C13_RoundShape ==
    (GenReturned /\ Truthy(resp[1].result) /\ ~IsErrorResult(resp[1].result))
        => WellFormedRound(resp[1].result.stmts)

\* C14: the prompt of a generation with round number round_count + 1 holds
\* the easter-egg instruction exactly when that number is divisible by 3,
\* with or without the history block.
C14_EasterEggEveryThird ==
    GenCalling =>
        /\ resp[1].prompt.round_number = GetHistory(current_session_id).round_count + 1
        /\ resp[1].prompt.easter_egg <=>
              (GetHistory(current_session_id).round_count + 1) % 3 = 0

\* the third round of a session is being generated, with a history block
C14_Witness ==
    /\ GenCalling
    /\ resp[1].prompt.round_number = 3
    /\ resp[1].prompt.history_block
    /\ resp[1].prompt.easter_egg

\* C15: without a model client, or without a prompt, generate_new_round
\* returns the matching error (the client is looked at first), never calls
\* the model and never reads or changes the history store.
C15_PreconditionErrors ==
    (~anthropic_client \/ ~claude_prompt) =>
        /\ ~GenCalling
        /\ gen_seq = 0
        /\ current_session_id = 0
        /\ session_history = EmptyHistory
        /\ \A s \in SessionIds : redis_sessions[s] = NoHash /\ redis_statements[s] = <<>>
        /\ resp # <<>> =>
              /\ resp[1].phase = "returned"
              /\ resp[1].calls = 0
              /\ resp[1].result =
                    (IF ~anthropic_client
                     THEN ErrorResult("Anthropic client not initialized")
                     ELSE ErrorResult("Claude prompt not loaded"))

\* neither the client nor the prompt is there and a call has returned
C15_Witness ==
    /\ ~anthropic_client /\ ~claude_prompt
    /\ GenReturned
    /\ resp[1].result = ErrorResult("Anthropic client not initialized")

\* C16: an exception of the model client makes generate_new_round return
\* the error of that kind after one model invocation, and the event the
\* scheduler publishes for it is an error event whose message names the
\* kind; nothing is generated again.
C16_ErrorKinds ==
    (GenReturned /\ resp[1].response.outcome \in ApiErrors) =>
        /\ resp[1].calls = 1
        /\ resp[1].result = ErrorResult(resp[1].response.outcome)
        /\ resp[1].event.frame.data.type = "error"
        /\ resp[1].event.frame.data.message = resp[1].response.outcome
        /\ resp[1].event.next = "clear"

\* an authentication failure was reported as such
C16_Witness ==
    /\ GenReturned
    /\ resp[1].response.outcome = "API Authentication Error"
    /\ resp[1].event.frame.data.message = "API Authentication Error"


----------------------------------------------------------------------------
(* Claims about a failing backend *)

\* a History: a round count and a sequence of at most REDIS_MAX_HISTORY rounds
ValidHistory(h) ==
    /\ DOMAIN h = {"rounds", "round_count"}
    /\ h.round_count \in Nat
    /\ h.rounds \in Seq({RoundOf(k) : k \in 1..FailAppends})
    /\ Len(h.rounds) <= REDIS_MAX_HISTORY

\* C17: when a Redis operation inside get_session_history fails, the caller
\* still gets a History: the current in-memory one.
C17_GetFallsBack ==
    (resp # <<>> /\ resp[1].action = "get" /\ got # <<>>) =>
        /\ ValidHistory(got[1])
        /\ resp[1].fail # "none" => got[1] = session_history

\* a get failed after a round had been recorded in the fallback
C17_Witness ==
    /\ resp # <<>> /\ resp[1].action = "get" /\ resp[1].fail = "lrange"
    /\ got # <<>> /\ got[1].round_count = 1 /\ Len(got[1].rounds) = 1

\* C18: when a Redis operation inside update_session_history fails, the
\* round is appended to the in-memory history and its round_count grows by
\* exactly one.
C18_AppendFallsBack ==
    (resp # <<>> /\ resp[1].action = "append" /\ resp[1].fail # "none") =>
        /\ session_history.round_count = resp[1].before.mem.round_count + 1
        /\ session_history.rounds =
              LastN(Append(resp[1].before.mem.rounds, resp[1].statements),
                    REDIS_MAX_HISTORY)

\* the list push failed and the round is in the fallback
C18_Witness ==
    /\ resp # <<>> /\ resp[1].action = "append" /\ resp[1].fail = "lpush"
    /\ session_history.round_count = 1
    /\ session_history.rounds = <<RoundOf(appends)>>

\* C19: when update_session_history falls back because the count increment,
\* the expiry refresh, the list push or the trim failed, the session's hash
\* and list in Redis are as they were before the call.
C19_FallbackLeavesRedis ==
    (/\ resp # <<>> /\ resp[1].action = "append"
     /\ resp[1].fail \in {"hincrby", "expire", "lpush", "ltrim"}
     /\ \A c \in DOMAIN handlers : handlers[c].pc = "idle") =>
        /\ redis_sessions[current_session_id] = resp[1].before.hash
        /\ redis_statements[current_session_id] = resp[1].before.list


----------------------------------------------------------------------------
(* Claims about the subscriber registry *)

\* C20: a subscriber registered by a stream connect is out of the registry
\* once its connection has ended, however it ended: while waiting, after an
\* event, or before the delivery loop produced its first output.
C20_EndedMeansUnregistered ==
    \A c \in ClientIds :
        clients[c] \in {"off", "closed", "aborted"} => c \notin DOMAIN message_queues


----------------------------------------------------------------------------
(* Claims about the session endpoint *)

\* a step in which POST /api/session answered an action that is neither
\* "reset" nor "new"
InvalidActionStep ==
    /\ resp' # resp
    /\ resp' # <<>>
    /\ resp'[1].action \notin {"reset", "new", "generate", "append", "get"}

\* C21 as stated: the invalid action is answered 400 with an error field and
\* leaves the session id, the history, the request flag and the preload
\* cache unchanged.
C21_InvalidActionNoChange ==
    [][InvalidActionStep =>
          /\ resp'[1].status = 400
          /\ "error" \in resp'[1].keys
          /\ UNCHANGED <<current_session_id, storeVars, hubVars>>]_vars

\* C21 amended: the invalid action is answered 400 with an error field and
\* leaves the history, the request flag and the preload cache unchanged; the
\* session id is unchanged when there is one, and is created when the
\* request is the first to ask for it.
C21_InvalidAction ==
    [][InvalidActionStep =>
          /\ resp'[1].status = 400
          /\ "error" \in resp'[1].keys
          /\ UNCHANGED <<storeVars, hubVars>>
          /\ current_session_id # 0 => UNCHANGED current_session_id
          /\ current_session_id' = resp'[1].session_id]_vars

\* an invalid action was answered in a session that holds rounds
C21_Witness ==
    /\ resp # <<>>
    /\ resp[1].action = "bogus"
    /\ resp[1].status = 400
    /\ appends > 0
    /\ current_session_id = resp[1].session_id


----------------------------------------------------------------------------
(* Claims about the locks *)

\* thread p is at an acquire of a lock that another thread holds
Waiting(p) == NextOp(p).op = "acquire" /\ ~LockFree(NextOp(p).lock)

\* C22: no thread acquires a lock while it holds one, so every thread holds
\* at most one of the three locks; a preload thread never asks for the
\* request-flag lock; and under fair scheduling a thread that waits for a
\* lock gets it.
C22_NoNestedLocks ==
    /\ [](\A p \in LockProcs :
             /\ Cardinality(Held(p)) <= 1
             /\ NextOp(p).op = "acquire" => Held(p) = {})
    /\ [](\A i \in DOMAIN threads["preload"].rest :
             threads["preload"].rest[i].lock # "lock")
    /\ \A p \in LockProcs : Waiting(p) ~> ~Waiting(p)

\* the stream handler waits for the lock while the scheduler holds it
C22_Witness ==
    /\ Waiting("stream")
    /\ Held("scheduler") = {"lock"}


----------------------------------------------------------------------------
(* Claims about the session identifier *)

\* C23: with no "new" action in between, every call of get_session_id, from
\* any thread and also when calls overlap on first access, returns the same
\* identifier, and it is the stored one.
C23_OneSessionId ==
    \A i \in 1..Len(got) :
        /\ got[i] = got[1]
        /\ (\A t \in SidCallers : threads[t].pc = "idle") => got[i] = current_session_id


----------------------------------------------------------------------------
(* Claims about the scheduler's iteration *)

\* the scheduler has observed the flag and has not yet reset it
Serving ==
    sched.pc \in {"take", "dispatch", "post_check", "post_start", "clear"} \cup GenPcs

\* C24: the flag stays set from the scheduler's observation of it until the
\* event of the request has been published; it is reset only by the
\* scheduler, only after that event, never before.
C24_FlagClearedAfterPublish ==
    /\ [](Serving => new_round_requested)
    /\ [][(new_round_requested /\ ~new_round_requested')
            => (sched.pc = "clear" /\ cycle_events = 1)]_vars

\* the event is out and the flag is still set
C24_Witness ==
    /\ sched.pc = "clear"
    /\ cycle_events = 1
    /\ new_round_requested

\* C25: the scheduler takes the preloaded round and empties the cache in one
\* step, so the round it is publishing is never the one in the cache and no
\* cached round is published for a second request, also while a preload
\* thread fills the cache again.
C25_ConsumedOnce ==
    /\ [](Truthy(sched.local_preloaded_round) =>
             preloaded_round # sched.local_preloaded_round)
    /\ [][(sched.pc = "take" /\ sched'.pc = "dispatch")
            => /\ sched'.round_data = preloaded_round
               /\ preloaded_round' = None]_vars

\* a cached round is being published while the next one is already cached
C25_Witness ==
    /\ sched.pc = "dispatch"
    /\ Truthy(sched.local_preloaded_round)
    /\ Truthy(preloaded_round)

\* threads started and not yet at their check-and-set
Started == {t \in ThreadIds : threads[t].pc = "start"}

\* the step starts one preload thread: in a free slot, or counted with the
\* threads beyond the slots
OneStarted ==
    IF IdleThreads # {}
    THEN /\ \E t \in IdleThreads : threads' = [threads EXCEPT ![t].pc = "start"]
         /\ UNCHANGED more_threads
    ELSE /\ more_threads' = Min(more_threads + 1, MoreThreads)
         /\ UNCHANGED threads

\* the step starts no preload thread
NoneStarted == UNCHANGED <<threads, more_threads>>

\* the step starts a preload thread that the model tells from those
\* started before
ThreadStarted ==
    \/ \E t \in ThreadIds : threads[t].pc = "idle" /\ threads'[t].pc = "start"
    \/ more_threads' > more_threads

\* the scheduler has published a round in this iteration
RoundServed ==
    /\ cycle_events = 1
    /\ Truthy(sched.round_data) /\ ~IsErrorResult(sched.round_data)

C27_CacheEventuallyFilled ==
    /\ [][(sched.pc = "idle" /\ sched'.pc # "idle") =>
            /\ NoneStarted
            /\ sched'.pc = IF ~is_preloading /\ preloaded_round = None
                           THEN "idle_start"
                           ELSE "poll"]_vars
    /\ [][(sched.pc = "idle_start" /\ sched'.pc # "idle_start") =>
            OneStarted /\ sched'.pc = "poll"]_vars
    /\ ([](gen_budget > 0)) => <>(preloaded_round # None)

\* C28: with either backend the rounds rendered into the prompt are the
\* HistoryContext most recently appended ones (all of them when there are
\* no more than HistoryContext).
C28_PromptListsMostRecent ==
    got # <<>> =>
        {recent_rounds(got[1])[i] : i \in 1..Len(recent_rounds(got[1]))}
            = {RoundOf(k) : k \in Max(1, appends - HistoryContext + 1)..appends}

----------------------------------------------------------------------------
(* Claims about the extraction *)

\* the positions of the fences of a text, and the k-th of them
Fences(text) == {i \in 1..Len(text) : text[i] = "F"}
NthFence(text, k) ==
    CHOOSE i \in Fences(text) : Cardinality({j \in Fences(text) : j <= i}) = k

\* the content of the last fenced block: what stands between the last pair
\* of fences, without the json tag and the surrounding spaces
LastFenced(text) ==
    LET pairs == Cardinality(Fences(text)) \div 2
        open == NthFence(text, 2 * pairs - 1)
        close == NthFence(text, 2 * pairs)
        inner == SubSeq(text, open + 1, close - 1)
    IN  Strip(IF inner # <<>> /\ inner[1] = "J" THEN Tail(inner) ELSE inner)

\* the candidate by the precedence: last fenced block, first { to last },
\* whole text
Candidate(text) ==
    IF Cardinality(Fences(text)) >= 2 THEN LastFenced(text)
    ELSE IF /\ \E i \in 1..Len(text) : text[i] = "{"
            /\ \E i, j \in 1..Len(text) : i < j /\ text[i] = "{" /\ text[j] = "}"
         THEN SubSeq(text, Find(text, "{", 1), RFind(text, "}"))
    ELSE text

\* C29: the candidate is the last fenced block if there is one, else the
\* text from the first { to the last }, else the whole text; it is parsed,
\* after a failure repaired once (escaped quotes) and parsed again, and a
\* second failure returns the parse error and leaves the history as it was.
C29_ExtractionPrecedence ==
    (resp # <<>> /\ resp[1].action = "extract") =>
        LET r == resp[1]
            c == Candidate(got)
        IN  /\ potential_json(got) = c
            /\ IF loads_ok(c)
               THEN r.response = [outcome |-> "parsed", value |-> loads(c)]
               ELSE IF loads_ok(cleaned_json(c))
               THEN r.response = [outcome |-> "parsed", value |-> loads(cleaned_json(c))]
               ELSE /\ r.response.outcome = "unparseable"
                    /\ r.result = ErrorResult("Failed to parse response from LLM")
                    /\ GetHistory(SessionIdNow) = r.before

\* prose around a fenced block that holds a valid object
C29_Witness ==
    /\ resp # <<>> /\ resp[1].action = "extract"
    /\ got = <<"c", "F", "{", "}", "F">>
    /\ resp[1].response.outcome = "parsed"

----------------------------------------------------------------------------
(* Claims about the prompt and response logs *)

LogReturned ==
    resp # <<>> /\ resp[1].action = "generate_logged" /\ resp[1].phase = "returned"

\* C30: whether or not the writes of the prompt log and of the response log
\* fail, the model is called and generate returns and stores what the
\* model's response alone determines.
C30_LogFailureHarmless ==
    LogReturned =>
        LET r == resp[1]
        IN  /\ r.calls = 1
            /\ r.result = GenReturn(r.response)
            /\ GetHistory(SessionIdNow).round_count =
                   r.before.round_count + (IF GenStores(r.response) THEN 1 ELSE 0)

\* both log writes failed and a round was returned
C30_Witness ==
    /\ LogReturned
    /\ resp[1].prompt_log.status = "caught"
    /\ resp[1].response_log.status = "caught"
    /\ WellFormedRound(resp[1].result.stmts)

----------------------------------------------------------------------------
(* Claims about a reset whose backend fails *)

\* C31: a reset during which the persisted backend fails clears the
\* process-local history and answers with the count that was cleared, as a
\* reset without failure does.
C31_ResetFallsBack ==
    (/\ resp # <<>> /\ resp[1].action = "reset" /\ resp[1].fail # "none"
     /\ \A c \in DOMAIN handlers : handlers[c].pc = "idle") =>
        /\ session_history = EmptyHistory
        /\ resp[1].keys = {"message"}
        /\ resp[1].message = "Session reset"
        /\ resp[1].cleared = resp[1].before.mem.round_count

----------------------------------------------------------------------------
(* Claims about publishing against connects and disconnects *)

\* C32: while an event is being published the registry does not change, so
\* the queues that get the event are the registry at one instant, and every
\* queue registered when the publication began has the event when it ends.
C32_PublishSeesOneRegistry ==
    /\ [](sched.pc = "iter" => DOMAIN message_queues = sched.seen)
    /\ [][(sched.pc = "iter" /\ sched'.pc = "poll") =>
            \A c \in sched.seen :
                /\ c \in DOMAIN message_queues
                /\ message_queues[c] # <<>>
                /\ message_queues[c][Len(message_queues[c])] = PubEventFrame(gen_seq)]_vars

\* a publication to two queues is half done while a third handler has yet
\* to register
C32_Witness ==
    /\ sched.pc = "iter"
    /\ Cardinality(sched.seen) = 2
    /\ Cardinality(sched.todo) = 1
    /\ \E c \in sched.seen \ sched.todo :
          message_queues[c] = <<PubEventFrame(gen_seq)>>
    /\ \E c \in DOMAIN clients : clients[c] = "off"

----------------------------------------------------------------------------
(* Claims about requests that find the flag set *)

\* C33: a stream handler that has registered its queue and has gone past
\* the flag (it set the flag or found it set) eventually has an event in
\* its queue, for as long as the scheduler runs, with no further trigger.
C33_NoRequestLost ==
    \A c \in 1..HubClients :
        (clients[c] = "created")
            ~> (sched.pc = "dead" \/ (c \in DOMAIN message_queues /\ message_queues[c] # <<>>))

----------------------------------------------------------------------------
(* Claims about what a generation leaves in the history *)

\* C34: a generation that returns an error, or whose result the scheduler
\* reports as an error event (the empty result included), leaves
\* round_count and rounds as they were before the call.
C34_ErrorLeavesHistory ==
    (/\ GenReturned
     /\ resp[1].calls = 1
     /\ \/ IsErrorResult(resp[1].result)
        \/ resp[1].event.frame.data.type = "error")
        => GetHistory(SessionIdNow) = resp[1].before

\* round_count of a session after the step
CountAfter(session_id) ==
    IF ~redis_client THEN session_history'.round_count
    ELSE redis_sessions'[session_id].round_count

\* C35: the round number a generation put in its prompt is the round_count
\* right after that generation's append, for the scheduler's synchronous
\* generation and for a preload, however the two interleave.
C35_RoundNumberIsCount ==
    [][/\ (/\ sched.pc \in UpdatePcs /\ sched'.pc = "dispatch"
           /\ Truthy(sched'.round_data) /\ ~IsErrorResult(sched'.round_data))
            => CountAfter(sched.g_session) = sched.prompt.round_number
       /\ \A t \in ThreadIds :
            (/\ threads[t].pc \in UpdatePcs /\ threads'[t].pc = "store"
             /\ Truthy(threads'[t].next_round) /\ ~IsErrorResult(threads'[t].next_round))
                => CountAfter(threads[t].g_session) = threads[t].prompt.round_number]_vars

\* the history of a session gets a round in the step
AppendedTo(session_id) ==
    IF redis_client THEN redis_sessions'[session_id] # redis_sessions[session_id]
    ELSE session_history' # session_history

\* C36: the round a call of generate stores goes to the session whose
\* history the call read for its prompt, also when the current session id
\* is replaced during the model call.
C36_AppendToSessionRead ==
    [][/\ (sched.pc \in {"append", "hincrby"} /\ sched'.pc # sched.pc)
            => AppendedTo(sched.g_session)
       /\ \A t \in ThreadIds :
            (threads[t].pc \in {"append", "hincrby"} /\ threads'[t].pc # threads[t].pc)
                => AppendedTo(threads[t].g_session)]_vars

----------------------------------------------------------------------------
(* Claims about the preload cache and is_preloading *)

\* the preload threads between their check-and-set and their end
Holding == {t \in ThreadIds : threads[t].pc \in GenPcs \cup {"store", "finally"}}

\* C37: the cache is filled only while it is empty and only by the one
\* preload that holds is_preloading, and it is emptied only by the scheduler
\* taking the round for a request; no preload overwrites or drops a cached
\* round.
C37_CacheWrittenByHolder ==
    [][preloaded_round' # preloaded_round =>
          IF preloaded_round = None
          THEN /\ is_preloading
               /\ \E t \in ThreadIds :
                     /\ Holding = {t}
                     /\ threads[t].pc = "store"
                     /\ preloaded_round' = threads[t].next_round
          ELSE /\ preloaded_round' = None
               /\ sched.pc = "take"
               /\ sched'.round_data = preloaded_round]_vars

\* a round is cached and another preload has been started
C37_Witness ==
    /\ Truthy(preloaded_round)
    /\ ~is_preloading
    /\ \E t \in ThreadIds : threads[t].pc = "start"

\* C38: is_preloading is set exactly while one preload is between its
\* check-and-set and its end, and every preload resets it when it ends,
\* whether its generation returned a round, an error or an empty result or
\* raised.
C38_PreloadingReset ==
    /\ [](Cardinality(Holding) <= 1 /\ (is_preloading <=> Holding # {}))
    /\ is_preloading ~> ~is_preloading

\* a preload whose generation raised is about to reset the flag
C38_Witness ==
    /\ is_preloading
    /\ \E t \in ThreadIds : threads[t].pc = "finally" /\ threads[t].next_round = None

----------------------------------------------------------------------------
(* Claims about session actions and the scheduler state *)

\* the step is a step of a reset or new action
SessionActionStep == handlers' # handlers

\* C39: the reset and new actions leave the request flag, the preloaded
\* round, is_preloading and the registry as they were, and the round cached
\* before such an action is the round delivered for the next request.
\* More exactly: no step of such an action changes any of the four; a
\* cached round leaves the cache in no other step than the one in which the
\* scheduler takes it for a request; and the round the scheduler took is
\* the new_round event every registered client gets.
C39_SessionActionsFrame ==
    /\ [][SessionActionStep =>
             UNCHANGED <<new_round_requested, preloaded_round, is_preloading,
                         message_queues>>]_vars
    /\ [][(preloaded_round # None /\ preloaded_round' # preloaded_round)
             => /\ sched.pc = "take" /\ sched'.pc = "dispatch"
                /\ new_round_requested
                /\ sched'.local_preloaded_round = preloaded_round
                /\ sched'.round_data = preloaded_round]_vars
    /\ [][(sched.pc = "dispatch" /\ sched'.pc # "dispatch"
               /\ Truthy(sched.local_preloaded_round))
             => \A c \in DOMAIN message_queues :
                   /\ c \in DOMAIN message_queues'
                   /\ message_queues'[c] =
                         Append(message_queues[c],
                                SseFrame(MessageData("new_round",
                                                     sched.local_preloaded_round)))]_vars

\* a Redis reset has deleted the keys of the session and has yet to write
\* the new count, with a round cached, a request pending and a client
\* registered
C39_Witness ==
    /\ redis_client
    /\ \E c \in DOMAIN handlers :
          handlers[c].op = "reset" /\ handlers[c].pc = "hset"
    /\ Truthy(preloaded_round)
    /\ new_round_requested
    /\ DOMAIN message_queues # {}

----------------------------------------------------------------------------
(* Claims about gets that overlap appends *)

\* C40: every History a get returns, also when the get overlaps an append,
\* has as many rounds as its round_count says (REDIS_MAX_HISTORY at most),
\* with either backend.
C40_GetSeesWholeAppends ==
    \A i \in 1..Len(got) :
        Len(got[i].rounds) = Min(got[i].round_count, REDIS_MAX_HISTORY)


====
